---- MODULE Spec2Model ----
(***************************************************************************)
(* A model of the authority/relevance pipeline of search_agent/pipeline.py *)
(* (class AuthorityAgent): the collector state, the aggregation entry      *)
(* point _collect_scored_result, the chunk loop of process_dataframe with  *)
(* its two executor phases, and the per-chunk persistence.                 *)
(*                                                                         *)
(* The specifications share the definitions below.                         *)
(*   Spec           process_dataframe: chunks, worker pool, persistence.   *)
(*   SpecCollector  a sequential client driving evaluate_result and        *)
(*                  _reset_chunk_state with the full range of scores and   *)
(*                  thresholds.                                            *)
(*   SpecSequential, SpecMirror, SpecFetch, SpecFilter, SpecInterrupt,     *)
(*   SpecFinal      process_dataframe with one worker and other inputs,    *)
(*                  the interrupt handler and the final outputs of main.   *)
(*   SpecMetasearch the collector of collect_metasearch_only.py.           *)
(*   SpecScorer     the cached scorers of search_agent/scoring_optimized.  *)
(*   SpecScorerThreads  score_authority_cached called by two threads.      *)
(***************************************************************************)
EXTENDS Integers, Sequences, FiniteSets, TLC

VARIABLES
    \* configuration handed to AuthorityAgent.__init__ and the input batch
    rows, checkpoint_interval, authority_threshold, relevance_threshold, max_workers,
    topk, enable_oss_upload, oss_upload_client, oss_paths,
    \* fields of AuthorityAgent
    authority_hosts, authority_hosts_updates, qna_records,
    all_results_with_scores, metasearch_results, qna_seen_keys,
    csv_part_index, total_metasearch_records, total_all_results,
    total_qna_records, relevance_distribution_total, stats, checkpoint_count,
    \* what has been written to the output directory and to the remote store
    checkpoint_files, csv_parts, oss_files, final_files,
    \* the thread running process_dataframe
    pc, start, chunk_index, chunk_search_results,
    \* the two ThreadPoolExecutors of a chunk
    search_tasks, scoring_tasks,
    \* history: who took the last step, and what was passed to the collector
    actor, hist_max_authority, hist_qna_emitted, hist_collect_calls, hist_last_scored,
    \* the MetasearchCollector of collect_metasearch_only.py with its files, and
    \* a call of a scorer of scoring_optimized.py
    collector, scorer

config_vars == <<rows, checkpoint_interval, authority_threshold, relevance_threshold,
                 max_workers, topk, enable_oss_upload, oss_upload_client, oss_paths>>

chunk_vars == <<metasearch_results, all_results_with_scores, qna_records,
                authority_hosts_updates>>

cumulative_vars == <<authority_hosts, qna_seen_keys, stats, total_metasearch_records,
                     total_all_results, total_qna_records,
                     relevance_distribution_total, checkpoint_count, csv_part_index>>

file_vars == <<checkpoint_files, csv_parts, oss_files, final_files>>

main_vars == <<pc, start, chunk_index, chunk_search_results>>

pool_vars == <<search_tasks, scoring_tasks>>

hist_vars == <<hist_max_authority, hist_qna_emitted, hist_collect_calls,
               hist_last_scored>>

agent_vars == <<config_vars, chunk_vars, cumulative_vars, file_vars, main_vars, pool_vars,
                actor, hist_vars>>

other_vars == <<collector, scorer>>

vars == <<agent_vars, other_vars>>

----------------------------------------------------------------------------
(* Bounds of the model *)

\* the input batch has at most MaxRows queries
MaxRows == 2
\* topk handed to the agent
TopK == 1
\* max_workers handed to the agent
MaxWorkers == 2
\* SpecSequential: the input batch has at most MaxSeqRows queries
MaxSeqRows == 3
\* SpecCollector: the client calls evaluate_result at most MaxCalls times
MaxCalls == 2
\* SpecMirror: the input batch has at most MaxMirrorRows queries
MaxMirrorRows == 2
\* SpecFetch: the input batch has at most MaxFetchRows queries, and topk is
\* FetchTopK
MaxFetchRows == 1
FetchTopK == 3
\* SpecFilter: the input batch has at most MaxFilterRows queries
MaxFilterRows == 2
\* SpecInterrupt: the input batch has at most MaxInterruptRows queries
MaxInterruptRows == 2
\* SpecFinal: the input batch has at most MaxFinalRows queries
MaxFinalRows == 2
\* SpecMetasearch: the collector is handed at most MaxQueries queries and a
\* checkpoint_interval of at most MaxQueryInterval, and main is run at most
\* MaxRuns times over one output directory
MaxQueries == 3
MaxQueryInterval == 2
MaxRuns == 2
\* SpecScorer: at most MaxScorerCalls calls of the cached scorers are made
MaxScorerCalls == 3
\* SpecScorerThreads: every worker thread makes at most MaxThreadCalls calls
\* of score_authority_cached
MaxThreadCalls == 2

(* Program constants *)

DefaultAuthorityThreshold == 2
DefaultRelevanceThreshold == 1
filter_authority_score == 4
filter_relevance_score == 2

----------------------------------------------------------------------------
(* Values *)

Queries == {"x", "y"}

Urls == {"http://a.com/1", "http://a.com/2", "http://b.com/1"}

\* links for which fetch_results finds no url or no host
MalformedLinks == {"", "b.com/7"}

\* urlparse(url).netloc
Host(url) ==
    CASE url = "http://a.com/1" -> "a.com"
      [] url = "http://a.com/2" -> "a.com"
      [] url = "http://b.com/1" -> "b.com"
      [] OTHER -> ""

Hosts == {Host(u) : u \in Urls}

AuthorityScores == 1..4
RelevanceScores == 0..2
AuthorityFailed == 0
RelevanceFailed == -1

DigitStr == <<"0", "1", "2", "3", "4", "5", "6", "7", "8", "9">>

RECURSIVE Digits(_)
Digits(n) == IF n < 10 THEN DigitStr[n + 1]
             ELSE Digits(n \div 10) \o DigitStr[(n % 10) + 1]

\* str(n) of an int
ToStr(n) == IF n < 0 THEN "-" \o Digits(0 - n) ELSE Digits(n)

\* int(s) of the text of a score
ToInt(s) == CHOOSE n \in -1..9 : ToStr(n) = s

\* d[k] = v on a dict
Put(d, k, v) == [x \in DOMAIN d \cup {k} |-> IF x = k THEN v ELSE d[x]]

EmptyDict == [x \in {} |-> 0]

\* the rationale text the scorer returns on its n-th call
Reason(n) == "why" \o ToStr(n)

----------------------------------------------------------------------------
(* score_single_result: the two scorer calls of one hit.  A reply is        *)
(* [raised |-> TRUE] or [raised |-> FALSE, score |-> s, reason |-> t].      *)

Raised == [raised |-> TRUE, score |-> 0, reason |-> ""]

Reply(s, t) == [raised |-> FALSE, score |-> s, reason |-> t]

ScoreSingleResult(result, rank, authority_reply, relevance_reply) ==
    [result |-> result,
     rank |-> rank,
     authority_score |-> IF authority_reply.raised THEN AuthorityFailed
                         ELSE authority_reply.score,
     authority_reason |-> IF authority_reply.raised THEN ""
                          ELSE authority_reply.reason,
     relevance_score |-> IF relevance_reply.raised THEN RelevanceFailed
                         ELSE relevance_reply.score,
     relevance_reason |-> IF relevance_reply.raised THEN ""
                          ELSE relevance_reply.reason]

\* no call of _collect_scored_result yet
NoScored ==
    [result |-> [query |-> "", url |-> "", host |-> ""], rank |-> 0,
     authority_score |-> 0, authority_reason |-> "",
     relevance_score |-> 0, relevance_reason |-> ""]

----------------------------------------------------------------------------
(* _collect_scored_result *)

\* the row appended to all_results_with_scores
ScoredRow(scored) ==
    [query |-> scored.result.query,
     rank |-> scored.rank,
     url |-> scored.result.url,
     host |-> scored.result.host,
     authority_score |-> scored.authority_score,
     authority_reason |-> scored.authority_reason,
     relevance_score |-> scored.relevance_score,
     relevance_reason |-> scored.relevance_reason]

\* the record appended to qna_records
QnaRecord(scored) ==
    [query |-> scored.result.query,
     url |-> scored.result.url,
     authority_score |-> scored.authority_score,
     relevance_score |-> scored.relevance_score]

\* a strict comparison in place of line 225
PassesAuthorityStrict(authority_score) == authority_score > authority_threshold

\* line 225
PassesAuthority(authority_score) == authority_score >= authority_threshold

\* line 236
PassesRelevance(relevance_score) == relevance_score >= relevance_threshold

\* line 227 without the comparison: the last score is stored
ReplacesHostEntryAlways(hosts, host, authority_score) == TRUE

\* line 227 with <= : an equal score replaces the entry
ReplacesHostEntryOnTie(hosts, host, authority_score) ==
    \/ host \notin DOMAIN hosts
    \/ ToInt(hosts[host].authority_score) <= authority_score

\* lines 226-227
ReplacesHostEntry(hosts, host, authority_score) ==
    \/ host \notin DOMAIN hosts
    \/ ToInt(hosts[host].authority_score) < authority_score

\* lines 228-231
HostEntry(authority_score, authority_reason) ==
    [authority_score |-> ToStr(authority_score), authority_reason |-> authority_reason]

\* line 236 moved out of the branch of line 225
QualifiesForQnaRelevanceOnly(scored) == PassesRelevance(scored.relevance_score)

\* lines 225 and 236: the test of line 236 sits inside the branch of line 225
QualifiesForQna(scored) ==
    /\ PassesAuthority(scored.authority_score)
    /\ PassesRelevance(scored.relevance_score)

\* line 238 without the lookup
IsNewQnaKeyAlways(key) == TRUE

\* line 238
IsNewQnaKey(key) == key \notin qna_seen_keys
\* a failed relevance scorer is not counted
CountAuthorityFailuresOnly(st, scored) ==
    [st EXCEPT
       !.authority_score_failed = @ + (IF scored.authority_score = 0 THEN 1 ELSE 0)]

\* lines 201-204
CountFailures(st, scored) ==
    [st EXCEPT
       !.authority_score_failed = @ + (IF scored.authority_score = 0 THEN 1 ELSE 0),
       !.relevance_score_failed = @ + (IF scored.relevance_score = -1 THEN 1 ELSE 0)]
\* lines 228-233 with the delta written for new hosts only: a raised entry
\* goes to the cumulative map alone
CollectScoredResultDeltaOfNewHosts(scored) ==
    LET host == scored.result.host
        key == <<scored.result.query, scored.result.url>>
        entry == HostEntry(scored.authority_score, scored.authority_reason)
        replaces == ReplacesHostEntry(authority_hosts, host, scored.authority_score)
    IN
    /\ stats' = CountFailures(stats, scored)
    /\ all_results_with_scores' = Append(all_results_with_scores, ScoredRow(scored))
    /\ total_all_results' = total_all_results + 1
    /\ relevance_distribution_total' =
         IF scored.relevance_score \in DOMAIN relevance_distribution_total
         THEN [relevance_distribution_total EXCEPT ![scored.relevance_score] = @ + 1]
         ELSE relevance_distribution_total
    /\ IF PassesAuthority(scored.authority_score)
       THEN /\ authority_hosts' =
                 IF replaces THEN Put(authority_hosts, host, entry) ELSE authority_hosts
            /\ authority_hosts_updates' =
                 IF replaces /\ host \notin DOMAIN authority_hosts
                 THEN Put(authority_hosts_updates, host, entry)
                 ELSE authority_hosts_updates
       ELSE UNCHANGED <<authority_hosts, authority_hosts_updates>>
    /\ IF QualifiesForQna(scored) /\ IsNewQnaKey(key)
       THEN /\ qna_seen_keys' = qna_seen_keys \cup {key}
            /\ qna_records' = Append(qna_records, QnaRecord(scored))
            /\ total_qna_records' = total_qna_records + 1
       ELSE UNCHANGED <<qna_seen_keys, qna_records, total_qna_records>>

CollectScoredResult(scored) ==
    LET host == scored.result.host
        key == <<scored.result.query, scored.result.url>>
        entry == HostEntry(scored.authority_score, scored.authority_reason)
        replaces == ReplacesHostEntry(authority_hosts, host, scored.authority_score)
    IN
    /\ stats' = CountFailures(stats, scored)
    /\ all_results_with_scores' = Append(all_results_with_scores, ScoredRow(scored))
    /\ total_all_results' = total_all_results + 1
    /\ relevance_distribution_total' =
         IF scored.relevance_score \in DOMAIN relevance_distribution_total
         THEN [relevance_distribution_total EXCEPT ![scored.relevance_score] = @ + 1]
         ELSE relevance_distribution_total
    /\ IF PassesAuthority(scored.authority_score)
       THEN /\ authority_hosts' =
                 IF replaces THEN Put(authority_hosts, host, entry) ELSE authority_hosts
            /\ authority_hosts_updates' =
                 IF replaces THEN Put(authority_hosts_updates, host, entry)
                 ELSE authority_hosts_updates
       ELSE UNCHANGED <<authority_hosts, authority_hosts_updates>>
    /\ IF QualifiesForQna(scored) /\ IsNewQnaKey(key)
       THEN /\ qna_seen_keys' = qna_seen_keys \cup {key}
            /\ qna_records' = Append(qna_records, QnaRecord(scored))
            /\ total_qna_records' = total_qna_records + 1
       ELSE UNCHANGED <<qna_seen_keys, qna_records, total_qna_records>>

\* the history of what was passed to _collect_scored_result and what it emitted
RecordCollect(scored) ==
    /\ hist_collect_calls' = hist_collect_calls + 1
    /\ hist_last_scored' = scored
    /\ hist_max_authority' =
         [hist_max_authority EXCEPT ![scored.result.host] =
            IF scored.authority_score > @ THEN scored.authority_score ELSE @]
    /\ hist_qna_emitted' =
         IF Len(qna_records') > Len(qna_records)
         THEN LET rec == qna_records'[Len(qna_records')]
                  key == <<rec.query, rec.url>>
              IN [hist_qna_emitted EXCEPT ![key] = @ + 1]
         ELSE hist_qna_emitted

----------------------------------------------------------------------------
(* _reset_chunk_state *)
\* the reset without its last line: the host delta map is kept
ResetChunkStateKeepsHostDelta ==
    /\ metasearch_results' = <<>>
    /\ all_results_with_scores' = <<>>
    /\ qna_records' = <<>>
    /\ authority_hosts_updates' = authority_hosts_updates

ResetChunkState ==
    /\ metasearch_results' = <<>>
    /\ all_results_with_scores' = <<>>
    /\ qna_records' = <<>>
    /\ authority_hosts_updates' = EmptyDict

----------------------------------------------------------------------------
(* AuthorityAgent.__init__ *)

\* oss_upload_client when none is handed to the agent
None == "None"

\* the agent main() builds without --enable-oss-upload and without OSS paths
NoMirror ==
    /\ enable_oss_upload = FALSE
    /\ oss_upload_client = None
    /\ oss_paths = [all_results |-> "", authority_hosts |-> "", filtered_qna |-> ""]

\* no MetasearchCollector is built, no scorer of scoring_optimized is called
NoMetasearchCollector == [pc |-> "absent"]

NoScorerCall == [pc |-> "absent"]

InitAgent ==
    /\ authority_hosts = EmptyDict
    /\ authority_hosts_updates = EmptyDict
    /\ qna_records = <<>>
    /\ all_results_with_scores = <<>>
    /\ metasearch_results = <<>>
    /\ qna_seen_keys = {}
    /\ csv_part_index = 0
    /\ total_metasearch_records = 0
    /\ total_all_results = 0
    /\ total_qna_records = 0
    /\ relevance_distribution_total = [s \in RelevanceScores |-> 0]
    /\ stats = [total_queries |-> 0, search_success |-> 0, search_failed |-> 0,
                authority_score_failed |-> 0, relevance_score_failed |-> 0]
    /\ checkpoint_count = 0
    /\ checkpoint_files = EmptyDict
    /\ csv_parts = EmptyDict
    /\ oss_files = EmptyDict
    /\ final_files = EmptyDict
    /\ hist_max_authority = [h \in Hosts |-> -1]
    /\ hist_qna_emitted = [k \in Queries \X Urls |-> 0]
    /\ hist_collect_calls = 0
    /\ hist_last_scored = NoScored

----------------------------------------------------------------------------
(* SpecCollector: evaluate_result and _reset_chunk_state called one after   *)
(* the other by a single thread                                             *)

SearchResult(query, url) == [query |-> query, url |-> url, host |-> Host(url)]

\* the hits handed to evaluate_result
CollectorHits == {SearchResult("x", u) : u \in {"http://a.com/1", "http://b.com/1"}}

AuthorityReplies(n) == {Raised} \cup {Reply(s, Reason(n)) : s \in AuthorityScores}

RelevanceReplies(n) == {Raised} \cup {Reply(s, Reason(n)) : s \in RelevanceScores}

InitCollector ==
    /\ InitAgent
    /\ collector = NoMetasearchCollector
    /\ scorer = NoScorerCall
    /\ rows = <<>>
    /\ checkpoint_interval = 0
    /\ authority_threshold \in AuthorityScores
    /\ relevance_threshold \in RelevanceScores
    /\ max_workers = MaxWorkers
    /\ topk = TopK
    /\ NoMirror
    /\ pc = "client"
    /\ start = 0
    /\ chunk_index = 0
    /\ chunk_search_results = <<>>
    /\ search_tasks = <<>>
    /\ scoring_tasks = <<>>
    /\ actor = "main"

EvaluateResult ==
    /\ pc = "client"
    /\ hist_collect_calls < MaxCalls
    /\ \E result \in CollectorHits :
       \E authority_reply \in AuthorityReplies(hist_collect_calls + 1) :
       \E relevance_reply \in RelevanceReplies(hist_collect_calls + 1) :
          LET scored == ScoreSingleResult(result, Len(all_results_with_scores) + 1,
                                          authority_reply, relevance_reply)
          IN /\ CollectScoredResult(scored)
             /\ RecordCollect(scored)
    /\ actor' = "main"
    /\ UNCHANGED <<other_vars, config_vars, metasearch_results, total_metasearch_records,
                   checkpoint_count, csv_part_index, file_vars, main_vars, pool_vars>>

ClientReset ==
    /\ pc = "client"
    /\ Len(all_results_with_scores) > 0
    /\ ResetChunkState
    /\ actor' = "main"
    /\ UNCHANGED <<other_vars, config_vars, cumulative_vars, file_vars, main_vars, pool_vars,
                   hist_vars>>

NextCollector == EvaluateResult \/ ClientReset

SpecCollector == InitCollector /\ [][NextCollector]_vars

----------------------------------------------------------------------------
(* process_dataframe: the chunk loop *)
\* a chunk size one larger than the interval asked for
ChunkSizeOffByOne ==
    LET size == IF checkpoint_interval > 0 THEN checkpoint_interval + 1 ELSE Len(rows)
    IN IF size < 1 THEN 1 ELSE size

\* lines 486-487
ChunkSize ==
    LET size == IF checkpoint_interval > 0 THEN checkpoint_interval ELSE Len(rows)
    IN IF size < 1 THEN 1 ELSE size

\* rows[start:start + chunk_size], start counted from 0 as in range()
ChunkRows(first) ==
    LET last == IF first + ChunkSize < Len(rows) THEN first + ChunkSize ELSE Len(rows)
    IN [i \in 1..(last - first) |-> rows[first + i]]

\* what search_client.search returns when it does not raise: the links of the items
SearchReplies ==
    { <<>>,
      <<"http://a.com/1">>,
      <<"", "http://a.com/2">>,
      <<"http://a.com/1", "http://b.com/1", "b.com/7">> }

\* list(items)[: self.topk]
TopItems(items) == SubSeq(items, 1, IF Len(items) < topk THEN Len(items) ELSE topk)
\* only the url is looked at
IsMalformedWithoutUrl(url) == url = ""

\* line 122
IsMalformed(url) == url = "" \/ Host(url) = ""

\* the position of the next item at or after position i that fetch_results keeps;
\* Len(items) + 1 when there is none
RECURSIVE NextKept(_, _)
NextKept(items, i) ==
    IF i > Len(items) THEN i
    ELSE IF IsMalformed(items[i]) THEN NextKept(items, i + 1)
    ELSE i

\* a task of the search executor: fetch_results(query) on a worker thread.
\* at: "queued", then the line of fetch_results the worker is about to run, then
\* "done" (the future holds results) and "taken" (as_completed has yielded it)
QueuedSearch(query) ==
    [query |-> query, at |-> "queued", tmp |-> 0, items |-> <<>>, i |-> 0,
     results |-> <<>>]

\* a task of the scoring executor: score_single_result(result, rank)
QueuedScoring(result, rank) ==
    [result |-> result, rank |-> rank, at |-> "queued", scored |-> <<>>]

Running(tasks) == {i \in DOMAIN tasks : tasks[i].at \notin {"queued", "done", "taken"}}

\* the executor hands its work queue to idle workers in submission order
CanStart(tasks, i) ==
    /\ tasks[i].at = "queued"
    /\ Cardinality(Running(tasks)) < max_workers
    /\ \A j \in DOMAIN tasks : j < i => tasks[j].at # "queued"

AllTaken(tasks) == \A i \in DOMAIN tasks : tasks[i].at = "taken"

\* the rows handed to process_dataframe: the first query is named "x"
RowsInputs ==
    {<<>>} \cup UNION {{r \in [1..n -> Queries] : r[1] = "x"} : n \in 1..MaxRows}

Init ==
    /\ InitAgent
    /\ collector = NoMetasearchCollector
    /\ scorer = NoScorerCall
    /\ rows \in RowsInputs
    /\ checkpoint_interval \in 0..MaxRows
    /\ authority_threshold = DefaultAuthorityThreshold
    /\ relevance_threshold = DefaultRelevanceThreshold
    /\ max_workers = MaxWorkers
    /\ topk = TopK
    /\ NoMirror
    /\ pc = "loop"
    /\ start = 0
    /\ chunk_index = 0
    /\ chunk_search_results = <<>>
    /\ search_tasks = <<>>
    /\ scoring_tasks = <<>>
    /\ actor = "main"

\* lines 490-508: the next chunk is reset and its queries are submitted
BeginChunk ==
    /\ pc = "loop"
    /\ start < Len(rows)
    /\ ResetChunkState
    /\ chunk_index' = chunk_index + 1
    /\ chunk_search_results' = <<>>
    /\ search_tasks' = [i \in DOMAIN ChunkRows(start) |-> QueuedSearch(ChunkRows(start)[i])]
    /\ scoring_tasks' = <<>>
    /\ pc' = "search"
    /\ actor' = "main"
    /\ UNCHANGED <<other_vars, config_vars, cumulative_vars, file_vars, start, hist_vars>>

\* lines 481-483 and the end of the for loop of line 490
EndOfRows ==
    /\ pc = "loop"
    /\ start >= Len(rows)
    /\ pc' = "done"
    /\ actor' = "main"
    /\ UNCHANGED <<other_vars, config_vars, chunk_vars, cumulative_vars, file_vars, start,
                   chunk_index, chunk_search_results, pool_vars, hist_vars>>

----------------------------------------------------------------------------
(* fetch_results on a worker thread.  Every read and every write of a field  *)
(* of the agent is a step of its own: the workers share the agent and take   *)
(* no lock.                                                                  *)

SearchStep(i, task) ==
    /\ search_tasks' = [search_tasks EXCEPT ![i] = task]
    /\ actor' = "worker"
    /\ UNCHANGED <<other_vars, config_vars, main_vars, scoring_tasks, file_vars, hist_vars>>

\* the task starts; line 106 reads stats["total_queries"]
FetchStartAt(i) ==
    /\ pc = "search"
    /\ CanStart(search_tasks, i)
    /\ SearchStep(i, [search_tasks[i] EXCEPT !.at = "w106", !.tmp = stats.total_queries])
    /\ UNCHANGED <<chunk_vars, cumulative_vars>>

\* line 106 stores the sum; line 108 calls the gateway
Fetch106At(i) ==
    /\ search_tasks[i].at = "w106"
    /\ stats' = [stats EXCEPT !.total_queries = search_tasks[i].tmp + 1]
    /\ SearchStep(i, [search_tasks[i] EXCEPT !.at = "search"])
    /\ UNCHANGED <<chunk_vars, authority_hosts, qna_seen_keys, total_metasearch_records,
                   total_all_results, total_qna_records, relevance_distribution_total,
                   checkpoint_count, csv_part_index>>

\* the gateway returns items; line 109 reads stats["search_success"]
SearchReturnsAt(i) ==
    /\ search_tasks[i].at = "search"
    /\ \E items \in SearchReplies :
         SearchStep(i, [search_tasks[i] EXCEPT !.at = "w109",
                                               !.tmp = stats.search_success,
                                               !.items = TopItems(items)])
    /\ UNCHANGED <<chunk_vars, cumulative_vars>>

\* the gateway raises; line 111 reads stats["search_failed"]
SearchRaisesAt(i) ==
    /\ search_tasks[i].at = "search"
    /\ SearchStep(i, [search_tasks[i] EXCEPT !.at = "w111", !.tmp = stats.search_failed])
    /\ UNCHANGED <<chunk_vars, cumulative_vars>>

\* line 109 stores the sum; lines 116-123 skip to the first item that is kept
Fetch109At(i) ==
    LET task == search_tasks[i]
        k == NextKept(task.items, 1)
    IN
    /\ task.at = "w109"
    /\ stats' = [stats EXCEPT !.search_success = task.tmp + 1]
    /\ SearchStep(i, [task EXCEPT !.i = k,
                                  !.at = IF k > Len(task.items) THEN "done" ELSE "l126"])
    /\ UNCHANGED <<chunk_vars, authority_hosts, qna_seen_keys, total_metasearch_records,
                   total_all_results, total_qna_records, relevance_distribution_total,
                   checkpoint_count, csv_part_index>>

\* line 111 stores the sum; line 113 returns []
Fetch111At(i) ==
    /\ search_tasks[i].at = "w111"
    /\ stats' = [stats EXCEPT !.search_failed = search_tasks[i].tmp + 1]
    /\ SearchStep(i, [search_tasks[i] EXCEPT !.at = "done"])
    /\ UNCHANGED <<chunk_vars, authority_hosts, qna_seen_keys, total_metasearch_records,
                   total_all_results, total_qna_records, relevance_distribution_total,
                   checkpoint_count, csv_part_index>>
\* the rank is counted over the hits kept so far for the query
MetasearchRowDenseRank(query, rank, url) ==
    [query |-> query,
     rank |-> Cardinality({k \in DOMAIN metasearch_results :
                              metasearch_results[k].query = query}) + 1,
     url |-> url, host |-> Host(url)]

\* the row of lines 126-134
MetasearchRow(query, rank, url) ==
    [query |-> query, rank |-> rank, url |-> url, host |-> Host(url)]

\* line 126: metasearch_results.append
Fetch126At(i) ==
    LET task == search_tasks[i] IN
    /\ task.at = "l126"
    /\ metasearch_results' =
         Append(metasearch_results, MetasearchRow(task.query, task.i, task.items[task.i]))
    /\ SearchStep(i, [task EXCEPT !.at = "r135"])
    /\ UNCHANGED <<all_results_with_scores, qna_records, authority_hosts_updates,
                   cumulative_vars>>

\* line 135 reads total_metasearch_records
Fetch135ReadAt(i) ==
    /\ search_tasks[i].at = "r135"
    /\ SearchStep(i, [search_tasks[i] EXCEPT !.at = "w135",
                                             !.tmp = total_metasearch_records])
    /\ UNCHANGED <<chunk_vars, cumulative_vars>>

\* line 135 stores the sum; lines 137-147 keep the hit and the loop goes on
Fetch135WriteAt(i) ==
    LET task == search_tasks[i]
        k == NextKept(task.items, task.i + 1)
    IN
    /\ task.at = "w135"
    /\ total_metasearch_records' = task.tmp + 1
    /\ SearchStep(i, [task EXCEPT
         !.results = Append(@, SearchResult(task.query, task.items[task.i])),
         !.i = k,
         !.at = IF k > Len(task.items) THEN "done" ELSE "l126"])
    /\ UNCHANGED <<chunk_vars, authority_hosts, qna_seen_keys, stats,
                   total_all_results, total_qna_records, relevance_distribution_total,
                   checkpoint_count, csv_part_index>>

FetchStart == \E i \in DOMAIN search_tasks : FetchStartAt(i)

Fetch106 == \E i \in DOMAIN search_tasks : Fetch106At(i)

SearchReturns == \E i \in DOMAIN search_tasks : SearchReturnsAt(i)

SearchRaises == \E i \in DOMAIN search_tasks : SearchRaisesAt(i)

Fetch109 == \E i \in DOMAIN search_tasks : Fetch109At(i)

Fetch111 == \E i \in DOMAIN search_tasks : Fetch111At(i)

Fetch126 == \E i \in DOMAIN search_tasks : Fetch126At(i)

Fetch135Read == \E i \in DOMAIN search_tasks : Fetch135ReadAt(i)

Fetch135Write == \E i \in DOMAIN search_tasks : Fetch135WriteAt(i)

\* lines 516-524: as_completed yields a finished search future
TakeSearchResults ==
    /\ pc = "search"
    /\ \E i \in DOMAIN search_tasks :
         /\ search_tasks[i].at = "done"
         /\ chunk_search_results' = chunk_search_results \o search_tasks[i].results
         /\ search_tasks' = [search_tasks EXCEPT ![i].at = "taken"]
    /\ actor' = "main"
    /\ UNCHANGED <<other_vars, config_vars, chunk_vars, cumulative_vars, file_vars, pc, start,
                   chunk_index, scoring_tasks, hist_vars>>

\* the hits are submitted from inside the loop of line 516, while search
\* futures are still pending
SubmitScoringEarly ==
    /\ pc = "search"
    /\ chunk_search_results # <<>>
    /\ scoring_tasks' = [k \in DOMAIN chunk_search_results |->
                            QueuedScoring(chunk_search_results[k], k)]
    /\ pc' = "score"
    /\ actor' = "main"
    /\ UNCHANGED <<other_vars, config_vars, chunk_vars, cumulative_vars, file_vars, start,
                   chunk_index, chunk_search_results, search_tasks, hist_vars>>

\* lines 529-536: the search executor has shut down; the hits are submitted
SubmitScoring ==
    /\ pc = "search"
    /\ AllTaken(search_tasks)
    /\ chunk_search_results # <<>>
    /\ scoring_tasks' = [k \in DOMAIN chunk_search_results |->
                            QueuedScoring(chunk_search_results[k], k)]
    /\ pc' = "score"
    /\ actor' = "main"
    /\ UNCHANGED <<other_vars, config_vars, chunk_vars, cumulative_vars, file_vars, start,
                   chunk_index, chunk_search_results, search_tasks, hist_vars>>
\* a chunk without hits goes on to persistence like any other
SkipChunkPersists ==
    /\ pc = "search"
    /\ AllTaken(search_tasks)
    /\ chunk_search_results = <<>>
    /\ pc' = IF checkpoint_interval > 0 THEN "save" ELSE "csv"
    /\ actor' = "main"
    /\ UNCHANGED <<other_vars, config_vars, chunk_vars, cumulative_vars, file_vars, start,
                   chunk_index, chunk_search_results, pool_vars, hist_vars>>

\* lines 529-530 and 551-552: a chunk without hits is left
SkipChunk ==
    /\ pc = "search"
    /\ AllTaken(search_tasks)
    /\ chunk_search_results = <<>>
    /\ start' = start + ChunkSize
    /\ pc' = "loop"
    /\ actor' = "main"
    /\ UNCHANGED <<other_vars, config_vars, chunk_vars, cumulative_vars, file_vars,
                   chunk_index, chunk_search_results, pool_vars, hist_vars>>

----------------------------------------------------------------------------
(* score_single_result on a worker thread *)

\* what the scorers of the run answer for the hit of rank n
RunAuthorityReplies(n) == {Raised, Reply(1, Reason(n)), Reply(4, Reason(n))}

RunRelevanceReplies(n) == {Raised, Reply(2, Reason(n))}

ScoringStep(k, task) ==
    /\ scoring_tasks' = [scoring_tasks EXCEPT ![k] = task]
    /\ actor' = "worker"
    /\ UNCHANGED <<other_vars, config_vars, main_vars, search_tasks, file_vars, hist_vars,
                   chunk_vars, cumulative_vars>>

ScoreStartAt(k) ==
    /\ pc = "score"
    /\ CanStart(scoring_tasks, k)
    /\ ScoringStep(k, [scoring_tasks[k] EXCEPT !.at = "scoring"])

\* evaluate_result submitted in place of score_single_result: the worker
\* aggregates its own result
EvaluateResultAt(k) ==
    LET task == scoring_tasks[k] IN
    /\ task.at = "scoring"
    /\ \E authority_reply \in RunAuthorityReplies(task.rank) :
       \E relevance_reply \in RunRelevanceReplies(task.rank) :
          LET scored == ScoreSingleResult(task.result, task.rank,
                                          authority_reply, relevance_reply)
          IN /\ CollectScoredResult(scored)
             /\ RecordCollect(scored)
    /\ scoring_tasks' = [scoring_tasks EXCEPT ![k].at = "taken"]
    /\ actor' = "worker"
    /\ UNCHANGED <<other_vars, config_vars, metasearch_results, total_metasearch_records,
                   checkpoint_count, csv_part_index, file_vars, main_vars, search_tasks>>

ScoreReturnsAt(k) ==
    LET task == scoring_tasks[k] IN
    /\ task.at = "scoring"
    /\ \E authority_reply \in RunAuthorityReplies(task.rank) :
       \E relevance_reply \in RunRelevanceReplies(task.rank) :
          ScoringStep(k, [task EXCEPT
             !.at = "done",
             !.scored = ScoreSingleResult(task.result, task.rank,
                                          authority_reply, relevance_reply)])

ScoreStart == \E k \in DOMAIN scoring_tasks : ScoreStartAt(k)

ScoreReturns == \E k \in DOMAIN scoring_tasks : ScoreReturnsAt(k)

\* lines 544-547: as_completed yields a finished scoring future
CollectScored ==
    /\ pc = "score"
    /\ \E k \in DOMAIN scoring_tasks :
         /\ scoring_tasks[k].at = "done"
         /\ CollectScoredResult(scoring_tasks[k].scored)
         /\ RecordCollect(scoring_tasks[k].scored)
         /\ scoring_tasks' = [scoring_tasks EXCEPT ![k].at = "taken", ![k].scored = <<>>]
    /\ actor' = "main"
    /\ UNCHANGED <<other_vars, config_vars, metasearch_results, total_metasearch_records,
                   checkpoint_count, csv_part_index, file_vars, main_vars, search_tasks>>
\* the chunk goes from scoring to the CSV part and its reset, without
\* save_checkpoint
EndScoringWithoutSave ==
    /\ pc = "score"
    /\ AllTaken(scoring_tasks)
    /\ pc' = "csv"
    /\ actor' = "main"
    /\ UNCHANGED <<other_vars, config_vars, chunk_vars, cumulative_vars, file_vars, start,
                   chunk_index, chunk_search_results, pool_vars, hist_vars>>

\* the chunk is left without waiting for its scoring futures
EndScoringEarly ==
    /\ pc = "score"
    /\ pc' = IF checkpoint_interval > 0 THEN "save" ELSE "csv"
    /\ actor' = "main"
    /\ UNCHANGED <<other_vars, config_vars, chunk_vars, cumulative_vars, file_vars, start,
                   chunk_index, chunk_search_results, pool_vars, hist_vars>>

\* lines 549-556: the scoring executor has shut down
EndScoring ==
    /\ pc = "score"
    /\ AllTaken(scoring_tasks)
    /\ pc' = IF checkpoint_interval > 0 THEN "save" ELSE "csv"
    /\ actor' = "main"
    /\ UNCHANGED <<other_vars, config_vars, chunk_vars, cumulative_vars, file_vars, start,
                   chunk_index, chunk_search_results, pool_vars, hist_vars>>

----------------------------------------------------------------------------
(* save_checkpoint, _save_checkpoint_parquets and _write_csv_part.  A table  *)
(* is the sequence of its rows; <<>> stands for a file that is not written.  *)

\* f"{n:03d}"
Pad3(n) == IF n < 10 THEN "00" \o ToStr(n)
           ELSE IF n < 100 THEN "0" \o ToStr(n)
           ELSE ToStr(n)
\* the number without its padding
CheckpointNameUnpadded(n) == "checkpoint_" \o ToStr(n)

\* line 268
CheckpointName(n) == "checkpoint_" \o Pad3(n)

\* line 396
PartSuffix(n) == "_part" \o Pad3(n) \o ".csv"

\* DataFrame(all_results_with_scores).astype(str)
AllResultsTable(results) ==
    [k \in DOMAIN results |->
        [query |-> results[k].query,
         rank |-> ToStr(results[k].rank),
         url |-> results[k].url,
         host |-> results[k].host,
         authority_score |-> ToStr(results[k].authority_score),
         authority_reason |-> results[k].authority_reason,
         relevance_score |-> ToStr(results[k].relevance_score),
         relevance_reason |-> results[k].relevance_reason]]

\* DataFrame(metasearch_results).astype(str)
MetasearchTable(hits) ==
    [k \in DOMAIN hits |->
        [query |-> hits[k].query, rank |-> ToStr(hits[k].rank),
         url |-> hits[k].url, host |-> hits[k].host]]

\* lines 308-315: the rows of the host map by falling authority_score; the
\* scores are one-digit texts, whose order as text is their order as numbers,
\* and rows of equal score come in either order
HostTables(hosts) ==
    LET n == Cardinality(DOMAIN hosts)
        orders == {o \in [1..n -> DOMAIN hosts] : \A i, j \in 1..n : i # j => o[i] # o[j]}
        falling(o) == \A i \in 1..n : \A j \in 1..n : i < j =>
                         ToInt(hosts[o[i]].authority_score) >= ToInt(hosts[o[j]].authority_score)
    IN {[k \in 1..n |-> [host |-> o[k],
                          authority_score |-> hosts[o[k]].authority_score,
                          authority_reason |-> hosts[o[k]].authority_reason]]
          : o \in {x \in orders : falling(x)}}

\* the thresholds of the QnA gate in place of the exact match
MatchesThresholds(rec, fa, fr) ==
    rec.authority_score >= authority_threshold /\ rec.relevance_score >= relevance_threshold

\* lines 339-340 and 449-450
MatchesFilter(rec, fa, fr) == rec.authority_score = fa /\ rec.relevance_score = fr

\* lines 326-341 and 436-451
FilteredQna(results, fa, fr) ==
    LET kept == SelectSeq(results, LAMBDA rec : MatchesFilter(rec, fa, fr))
    IN [k \in DOMAIN kept |->
          [query |-> kept[k].query,
           url |-> kept[k].url,
           authority_score |-> ToStr(kept[k].authority_score),
           relevance_score |-> ToStr(kept[k].relevance_score),
           authority_reason |-> kept[k].authority_reason,
           relevance_reason |-> kept[k].relevance_reason]]

\* lines 292-351: the three tables of a checkpoint directory, in the order in
\* which they are written
LocalCheckpoint(hosts_table) ==
    [all_results_with_scores |-> AllResultsTable(all_results_with_scores),
     authority_hosts |-> hosts_table,
     filtered_qna |-> FilteredQna(all_results_with_scores,
                                  filter_authority_score, filter_relevance_score)]

NoTables == [all_results_with_scores |-> <<>>, authority_hosts |-> <<>>,
             filtered_qna |-> <<>>]

LocalTable(dir, k) ==
    CASE k = 1 -> dir.all_results_with_scores
      [] k = 2 -> dir.authority_hosts
      [] k = 3 -> dir.filtered_qna

\* the directory when the write of table k raised: the tables before k
LocalUpTo(dir, k) ==
    [all_results_with_scores |-> IF k > 1 THEN dir.all_results_with_scores ELSE <<>>,
     authority_hosts |-> IF k > 2 THEN dir.authority_hosts ELSE <<>>,
     filtered_qna |-> <<>>]

\* lines 360-364: file_mappings
OssBasePath(k) ==
    CASE k = 1 -> oss_paths.all_results
      [] k = 2 -> oss_paths.authority_hosts
      [] k = 3 -> oss_paths.filtered_qna

\* line 377
OssFilePath(k, checkpoint_name) ==
    OssBasePath(k) \o "/" \o checkpoint_name \o ".parquet"

\* lines 367-374: a table is uploaded when its path is configured and its
\* file exists
IsUploaded(dir, k) == OssBasePath(k) # "" /\ LocalTable(dir, k) # <<>>

\* lines 366-383: the remote store after the loop has handled the first n
\* entries of file_mappings
RECURSIVE UploadUpTo(_, _, _, _)
UploadUpTo(store, dir, checkpoint_name, n) ==
    IF n = 0 THEN store
    ELSE LET before == UploadUpTo(store, dir, checkpoint_name, n - 1)
         IN IF IsUploaded(dir, n)
            THEN Put(before, OssFilePath(n, checkpoint_name), LocalTable(dir, n))
            ELSE before
\* save_checkpoint that logs a failed or impossible upload and returns
SaveCheckpointIgnoresUploadError ==
    /\ pc = "save"
    /\ checkpoint_interval > 0
    /\ checkpoint_count' = checkpoint_count + 1
    /\ \E hosts_table \in HostTables(authority_hosts_updates) :
       \E n \in 0..3 :
         LET dir == LocalCheckpoint(hosts_table)
             checkpoint_name == CheckpointName(checkpoint_count + 1)
         IN /\ checkpoint_files' = Put(checkpoint_files, checkpoint_name, dir)
            /\ oss_files' = IF enable_oss_upload /\ oss_upload_client # None
                            THEN UploadUpTo(oss_files, dir, checkpoint_name, n)
                            ELSE oss_files
    /\ pc' = "csv"
    /\ actor' = "main"
    /\ UNCHANGED <<other_vars, config_vars, chunk_vars, authority_hosts, qna_seen_keys, stats,
                   total_metasearch_records, total_all_results, total_qna_records,
                   relevance_distribution_total, csv_part_index, csv_parts, final_files,
                   start,
                   chunk_index, chunk_search_results, pool_vars, hist_vars>>

\* lines 253-290, 292-351 and 353-387: save_checkpoint returns normally
SaveCheckpoint ==
    /\ pc = "save"
    /\ checkpoint_interval > 0
    /\ enable_oss_upload => oss_upload_client # None
    /\ checkpoint_count' = checkpoint_count + 1
    /\ \E hosts_table \in HostTables(authority_hosts_updates) :
         LET dir == LocalCheckpoint(hosts_table)
             checkpoint_name == CheckpointName(checkpoint_count + 1)
         IN /\ checkpoint_files' = Put(checkpoint_files, checkpoint_name, dir)
            /\ oss_files' = IF enable_oss_upload
                            THEN UploadUpTo(oss_files, dir, checkpoint_name, 3)
                            ELSE oss_files
    /\ pc' = "csv"
    /\ actor' = "main"
    /\ UNCHANGED <<other_vars, config_vars, chunk_vars, authority_hosts, qna_seen_keys, stats,
                   total_metasearch_records, total_all_results, total_qna_records,
                   relevance_distribution_total, csv_part_index, csv_parts, final_files,
                   start,
                   chunk_index, chunk_search_results, pool_vars, hist_vars>>

\* lines 389-472 and the step of the for loop of line 490
WriteCsvPart ==
    /\ pc = "csv"
    /\ IF /\ metasearch_results = <<>>
          /\ all_results_with_scores = <<>>
          /\ qna_records = <<>>
          /\ DOMAIN authority_hosts_updates = {}
       THEN UNCHANGED <<csv_part_index, csv_parts, chunk_vars>>
       ELSE /\ csv_part_index' = csv_part_index + 1
            /\ \E hosts_table \in HostTables(authority_hosts_updates) :
                 csv_parts' =
                    Put(csv_parts, PartSuffix(csv_part_index + 1),
                        [metasearch_results |-> MetasearchTable(metasearch_results),
                         all_results_with_scores |->
                            AllResultsTable(all_results_with_scores),
                         authority_hosts |-> hosts_table,
                         filtered_qna |-> FilteredQna(all_results_with_scores,
                                                      filter_authority_score,
                                                      filter_relevance_score)])
            /\ ResetChunkState
    /\ start' = start + ChunkSize
    /\ pc' = "loop"
    /\ actor' = "main"
    /\ UNCHANGED <<other_vars, config_vars, authority_hosts, qna_seen_keys, stats,
                   total_metasearch_records, total_all_results, total_qna_records,
                   relevance_distribution_total, checkpoint_count, checkpoint_files,
                   oss_files, final_files, chunk_index, chunk_search_results, pool_vars,
                   hist_vars>>

----------------------------------------------------------------------------

Next ==
    \/ BeginChunk
    \/ EndOfRows
    \/ FetchStart
    \/ Fetch106
    \/ SearchReturns
    \/ SearchRaises
    \/ Fetch109
    \/ Fetch111
    \/ Fetch126
    \/ Fetch135Read
    \/ Fetch135Write
    \/ TakeSearchResults
    \/ SubmitScoring
    \/ SkipChunk
    \/ ScoreStart
    \/ ScoreReturns
    \/ CollectScored
    \/ EndScoring
    \/ SaveCheckpoint
    \/ WriteCsvPart

Spec == Init /\ [][Next]_vars

----------------------------------------------------------------------------
(* SpecSequential: process_dataframe of an agent built with max_workers = 1, *)
(* over longer batches                                                       *)

\* the rows handed to process_dataframe: "x", "y", "x", ...
SeqRowsInputs ==
    {[i \in 1..n |-> IF i % 2 = 1 THEN "x" ELSE "y"] : n \in 0..MaxSeqRows}

InitSequential ==
    /\ InitAgent
    /\ collector = NoMetasearchCollector
    /\ scorer = NoScorerCall
    /\ rows \in SeqRowsInputs
    /\ checkpoint_interval \in 0..MaxSeqRows
    /\ authority_threshold = DefaultAuthorityThreshold
    /\ relevance_threshold = DefaultRelevanceThreshold
    /\ max_workers = 1
    /\ topk = TopK
    /\ NoMirror
    /\ pc = "loop"
    /\ start = 0
    /\ chunk_index = 0
    /\ chunk_search_results = <<>>
    /\ search_tasks = <<>>
    /\ scoring_tasks = <<>>
    /\ actor = "main"

SpecSequential == InitSequential /\ [][Next]_vars

----------------------------------------------------------------------------
(* SpecMirror: process_dataframe of an agent built with max_workers = 1,     *)
(* with or without the remote mirror, where a write of save_checkpoint can   *)
(* raise.  The exception leaves save_checkpoint (lines 288-290 and 385-387)  *)
(* and process_dataframe, which handles none.                                *)

\* lines 267-270 and 288-290: the directory exists, holds what was written
\* before the exception, and the exception leaves process_dataframe
SaveCheckpointRaises(dir, store) ==
    /\ checkpoint_count' = checkpoint_count + 1
    /\ checkpoint_files' = Put(checkpoint_files, CheckpointName(checkpoint_count + 1), dir)
    /\ oss_files' = store
    /\ pc' = "failed"
    /\ actor' = "main"
    /\ UNCHANGED <<other_vars, config_vars, chunk_vars, authority_hosts, qna_seen_keys, stats,
                   total_metasearch_records, total_all_results, total_qna_records,
                   relevance_distribution_total, csv_part_index, csv_parts, final_files,
                   start,
                   chunk_index, chunk_search_results, pool_vars, hist_vars>>

\* lines 301, 319, 346: to_parquet raises for one of the tables
LocalWriteFails ==
    /\ pc = "save"
    /\ checkpoint_interval > 0
    /\ \E hosts_table \in HostTables(authority_hosts_updates) :
       \E k \in 1..3 :
          /\ LocalTable(LocalCheckpoint(hosts_table), k) # <<>>
          /\ SaveCheckpointRaises(LocalUpTo(LocalCheckpoint(hosts_table), k), oss_files)

\* lines 357-358: the upload is enabled and no client was handed to the agent
UploadClientMissing ==
    /\ pc = "save"
    /\ checkpoint_interval > 0
    /\ enable_oss_upload
    /\ oss_upload_client = None
    /\ \E hosts_table \in HostTables(authority_hosts_updates) :
          SaveCheckpointRaises(LocalCheckpoint(hosts_table), oss_files)

\* lines 379-387: read_parquet or write_parquet raises for one of the tables
UploadFails ==
    /\ pc = "save"
    /\ checkpoint_interval > 0
    /\ enable_oss_upload
    /\ oss_upload_client # None
    /\ \E hosts_table \in HostTables(authority_hosts_updates) :
       \E k \in 1..3 :
          LET dir == LocalCheckpoint(hosts_table) IN
          /\ IsUploaded(dir, k)
          /\ SaveCheckpointRaises(dir,
                 UploadUpTo(oss_files, dir, CheckpointName(checkpoint_count + 1), k - 1))

\* the rows handed to process_dataframe: "x", "y", ...
MirrorRowsInputs ==
    {[i \in 1..n |-> IF i % 2 = 1 THEN "x" ELSE "y"] : n \in 1..MaxMirrorRows}

\* the --oss-*-path arguments: all given, one left out, none given, one given
\* twice
MirrorPaths ==
    { [all_results |-> "oss://all", authority_hosts |-> "oss://hosts",
       filtered_qna |-> "oss://qna"],
      [all_results |-> "oss://all", authority_hosts |-> "oss://hosts",
       filtered_qna |-> ""],
      [all_results |-> "", authority_hosts |-> "", filtered_qna |-> ""],
      [all_results |-> "oss://all", authority_hosts |-> "oss://hosts",
       filtered_qna |-> "oss://all"] }

InitMirror ==
    /\ InitAgent
    /\ collector = NoMetasearchCollector
    /\ scorer = NoScorerCall
    /\ rows \in MirrorRowsInputs
    /\ checkpoint_interval \in 0..MaxMirrorRows
    /\ authority_threshold = DefaultAuthorityThreshold
    /\ relevance_threshold = DefaultRelevanceThreshold
    /\ max_workers = 1
    /\ topk = TopK
    /\ enable_oss_upload \in BOOLEAN
    /\ oss_upload_client \in {None, "client"}
    /\ oss_paths \in MirrorPaths
    /\ pc = "loop"
    /\ start = 0
    /\ chunk_index = 0
    /\ chunk_search_results = <<>>
    /\ search_tasks = <<>>
    /\ scoring_tasks = <<>>
    /\ actor = "main"

NextMirror ==
    \/ Next
    \/ LocalWriteFails
    \/ UploadClientMissing
    \/ UploadFails

SpecMirror == InitMirror /\ [][NextMirror]_vars

----------------------------------------------------------------------------
(* SpecFetch: process_dataframe of an agent built with max_workers = 1 and   *)
(* a topk that takes every item of a reply of the gateway                    *)

FetchRowsInputs ==
    {[i \in 1..n |-> IF i % 2 = 1 THEN "x" ELSE "y"] : n \in 1..MaxFetchRows}

InitFetch ==
    /\ InitAgent
    /\ collector = NoMetasearchCollector
    /\ scorer = NoScorerCall
    /\ rows \in FetchRowsInputs
    /\ checkpoint_interval \in 0..MaxFetchRows
    /\ authority_threshold = DefaultAuthorityThreshold
    /\ relevance_threshold = DefaultRelevanceThreshold
    /\ max_workers = 1
    /\ topk = FetchTopK
    /\ NoMirror
    /\ pc = "loop"
    /\ start = 0
    /\ chunk_index = 0
    /\ chunk_search_results = <<>>
    /\ search_tasks = <<>>
    /\ scoring_tasks = <<>>
    /\ actor = "main"

SpecFetch == InitFetch /\ [][Next]_vars

----------------------------------------------------------------------------
(* SpecFilter: process_dataframe of an agent built with max_workers = 1 and  *)
(* with several values of --authority-threshold and --relevance-threshold    *)

FilterRowsInputs ==
    {[i \in 1..n |-> IF i % 2 = 1 THEN "x" ELSE "y"] : n \in 1..MaxFilterRows}

\* the thresholds handed to the agent
AuthorityThresholdInputs == {1, DefaultAuthorityThreshold, 4}

RelevanceThresholdInputs == {0, 2}

InitFilter ==
    /\ InitAgent
    /\ collector = NoMetasearchCollector
    /\ scorer = NoScorerCall
    /\ rows \in FilterRowsInputs
    /\ checkpoint_interval \in 0..MaxFilterRows
    /\ authority_threshold \in AuthorityThresholdInputs
    /\ relevance_threshold \in RelevanceThresholdInputs
    /\ max_workers = 1
    /\ topk = TopK
    /\ NoMirror
    /\ pc = "loop"
    /\ start = 0
    /\ chunk_index = 0
    /\ chunk_search_results = <<>>
    /\ search_tasks = <<>>
    /\ scoring_tasks = <<>>
    /\ actor = "main"

SpecFilter == InitFilter /\ [][Next]_vars

----------------------------------------------------------------------------
(* SpecInterrupt: main() of main_pipeline.py around process_dataframe, for   *)
(* an agent built with max_workers = 1.  A KeyboardInterrupt can reach the   *)
(* thread of main between any two of its steps; it leaves the with block of  *)
(* the executor, whose shutdown waits for the tasks submitted, and arrives   *)
(* in the handler of main, which saves a checkpoint and raises again.        *)

\* KeyboardInterrupt is raised in the thread running process_dataframe
Interrupt ==
    /\ pc \in {"loop", "search", "score", "save", "csv"}
    /\ pc' = IF pc \in {"search", "score"} THEN "shutdown" ELSE "handler"
    /\ actor' = "main"
    /\ UNCHANGED <<other_vars, config_vars, chunk_vars, cumulative_vars, file_vars, start,
                   chunk_index, chunk_search_results, pool_vars, hist_vars>>

\* ThreadPoolExecutor.__exit__: shutdown(wait=True) cancels nothing, a worker
\* takes the next queued call of fetch_results
FetchStartDuringShutdown ==
    /\ pc = "shutdown"
    /\ \E i \in DOMAIN search_tasks :
         /\ CanStart(search_tasks, i)
         /\ SearchStep(i, [search_tasks[i] EXCEPT !.at = "w106",
                                                   !.tmp = stats.total_queries])
    /\ UNCHANGED <<chunk_vars, cumulative_vars>>

\* a worker takes the next queued call of score_single_result
ScoreStartDuringShutdown ==
    /\ pc = "shutdown"
    /\ \E k \in DOMAIN scoring_tasks :
         /\ CanStart(scoring_tasks, k)
         /\ ScoringStep(k, [scoring_tasks[k] EXCEPT !.at = "scoring"])

\* every task submitted has run; the interrupt leaves process_dataframe and
\* process_inputs and reaches line 358 of main
ShutdownEnds ==
    /\ pc = "shutdown"
    /\ \A i \in DOMAIN search_tasks : search_tasks[i].at \in {"done", "taken"}
    /\ \A k \in DOMAIN scoring_tasks : scoring_tasks[k].at \in {"done", "taken"}
    /\ pc' = "handler"
    /\ actor' = "main"
    /\ UNCHANGED <<other_vars, config_vars, chunk_vars, cumulative_vars, file_vars, start,
                   chunk_index, chunk_search_results, pool_vars, hist_vars>>

\* lines 358-365 of main with checkpoint_interval <= 0: raise
HandlerRaisesAgain ==
    /\ pc = "handler"
    /\ checkpoint_interval <= 0
    /\ pc' = "interrupted"
    /\ actor' = "main"
    /\ UNCHANGED <<other_vars, config_vars, chunk_vars, cumulative_vars, file_vars, start,
                   chunk_index, chunk_search_results, pool_vars, hist_vars>>

\* lines 358-365 of main: save_checkpoint returns, then raise
HandlerSaveCheckpoint ==
    /\ pc = "handler"
    /\ checkpoint_interval > 0
    /\ enable_oss_upload => oss_upload_client # None
    /\ checkpoint_count' = checkpoint_count + 1
    /\ \E hosts_table \in HostTables(authority_hosts_updates) :
         LET dir == LocalCheckpoint(hosts_table)
             checkpoint_name == CheckpointName(checkpoint_count + 1)
         IN /\ checkpoint_files' = Put(checkpoint_files, checkpoint_name, dir)
            /\ oss_files' = IF enable_oss_upload
                            THEN UploadUpTo(oss_files, dir, checkpoint_name, 3)
                            ELSE oss_files
    /\ pc' = "interrupted"
    /\ actor' = "main"
    /\ UNCHANGED <<other_vars, config_vars, chunk_vars, authority_hosts, qna_seen_keys, stats,
                   total_metasearch_records, total_all_results, total_qna_records,
                   relevance_distribution_total, csv_part_index, csv_parts, final_files,
                   start,
                   chunk_index, chunk_search_results, pool_vars, hist_vars>>

\* lines 358-364 of main: to_parquet raises for one of the tables inside
\* save_checkpoint, which raises (line 290); the call of line 361 stands in no
\* try, so the exception leaves the handler before line 365 is reached
HandlerSaveCheckpointRaises ==
    /\ pc = "handler"
    /\ checkpoint_interval > 0
    /\ \E hosts_table \in HostTables(authority_hosts_updates) :
       \E k \in 1..3 :
          /\ LocalTable(LocalCheckpoint(hosts_table), k) # <<>>
          /\ SaveCheckpointRaises(LocalUpTo(LocalCheckpoint(hosts_table), k), oss_files)

InterruptRowsInputs ==
    {[i \in 1..n |-> IF i % 2 = 1 THEN "x" ELSE "y"] : n \in 1..MaxInterruptRows}

InitInterrupt ==
    /\ InitAgent
    /\ collector = NoMetasearchCollector
    /\ scorer = NoScorerCall
    /\ rows \in InterruptRowsInputs
    /\ checkpoint_interval \in 0..MaxInterruptRows
    /\ authority_threshold = DefaultAuthorityThreshold
    /\ relevance_threshold = DefaultRelevanceThreshold
    /\ max_workers = 1
    /\ topk = TopK
    /\ NoMirror
    /\ pc = "loop"
    /\ start = 0
    /\ chunk_index = 0
    /\ chunk_search_results = <<>>
    /\ search_tasks = <<>>
    /\ scoring_tasks = <<>>
    /\ actor = "main"

NextInterrupt ==
    \/ Next
    \/ Interrupt
    \/ FetchStartDuringShutdown
    \/ ScoreStartDuringShutdown
    \/ ShutdownEnds
    \/ HandlerRaisesAgain
    \/ HandlerSaveCheckpoint
    \/ HandlerSaveCheckpointRaises

SpecInterrupt == InitInterrupt /\ [][NextInterrupt]_vars

----------------------------------------------------------------------------
(* SpecFinal: process_dataframe of an agent built with max_workers = 1,      *)
(* followed by the final output of its caller: flush_outputs_csv (main of    *)
(* main_pipeline.py) or flush_outputs (main of agent.py)                     *)

\* a final CSV file is written when its table has rows
PutIfAny(files, name, table) ==
    IF table # <<>> THEN Put(files, name, table) ELSE files

\* lines 630-707: the four final CSV files
FinalCsvFiles(hosts_table) ==
    PutIfAny(
      PutIfAny(
        PutIfAny(
          PutIfAny(final_files,
                   "metasearch_results.csv", MetasearchTable(metasearch_results)),
          "all_results_with_scores.csv", AllResultsTable(all_results_with_scores)),
        "authority_hosts.csv", hosts_table),
      "filtered_qna.csv", FilteredQna(all_results_with_scores,
                                      filter_authority_score, filter_relevance_score))

\* lines 592-598: the rows of authority_hosts.parquet, one per host of the
\* map; the order of a dict is left open
HostScoreTables(hosts) ==
    LET n == Cardinality(DOMAIN hosts)
        orders == {o \in [1..n -> DOMAIN hosts] : \A i, j \in 1..n : i # j => o[i] # o[j]}
    IN {[k \in 1..n |-> [host |-> o[k], authority_score |-> hosts[o[k]]]] : o \in orders}

\* flush_outputs_csv without the test of lines 623-628
FlushOutputsCsvAlways ==
    /\ pc = "done"
    /\ \E hosts_table \in HostTables(authority_hosts) :
          final_files' = FinalCsvFiles(hosts_table)
    /\ pc' = "flushed"
    /\ actor' = "main"
    /\ UNCHANGED <<other_vars, config_vars, chunk_vars, cumulative_vars, checkpoint_files, csv_parts,
                   oss_files, start, chunk_index, chunk_search_results, pool_vars,
                   hist_vars>>

\* lines 608-707, called at line 347 of main_pipeline.py
FlushOutputsCsv ==
    /\ pc = "done"
    /\ IF csv_part_index > 0
       THEN final_files' = final_files
       ELSE \E hosts_table \in HostTables(authority_hosts) :
               final_files' = FinalCsvFiles(hosts_table)
    /\ pc' = "flushed"
    /\ actor' = "main"
    /\ UNCHANGED <<other_vars, config_vars, chunk_vars, cumulative_vars, checkpoint_files, csv_parts,
                   oss_files, start, chunk_index, chunk_search_results, pool_vars,
                   hist_vars>>

\* lines 586-606, called at line 108 of agent.py with both prefixes
FlushOutputs ==
    /\ pc = "done"
    /\ IF csv_part_index > 0
       THEN final_files' = final_files
       ELSE \E hosts_table \in HostScoreTables(authority_hosts) :
               final_files' = Put(Put(final_files, "authority_hosts.parquet", hosts_table),
                                  "authority_qna.parquet", qna_records)
    /\ pc' = "flushed"
    /\ actor' = "main"
    /\ UNCHANGED <<other_vars, config_vars, chunk_vars, cumulative_vars, checkpoint_files, csv_parts,
                   oss_files, start, chunk_index, chunk_search_results, pool_vars,
                   hist_vars>>

FinalRowsInputs ==
    {[i \in 1..n |-> IF i % 2 = 1 THEN "x" ELSE "y"] : n \in 1..MaxFinalRows}

InitFinal ==
    /\ InitAgent
    /\ collector = NoMetasearchCollector
    /\ scorer = NoScorerCall
    /\ rows \in FinalRowsInputs
    /\ checkpoint_interval \in 0..MaxFinalRows
    /\ authority_threshold = DefaultAuthorityThreshold
    /\ relevance_threshold = DefaultRelevanceThreshold
    /\ max_workers = 1
    /\ topk = TopK
    /\ NoMirror
    /\ pc = "loop"
    /\ start = 0
    /\ chunk_index = 0
    /\ chunk_search_results = <<>>
    /\ search_tasks = <<>>
    /\ scoring_tasks = <<>>
    /\ actor = "main"

NextFinal ==
    \/ Next
    \/ FlushOutputsCsv
    \/ FlushOutputs

SpecFinal == InitFinal /\ [][NextFinal]_vars

----------------------------------------------------------------------------
(* SpecMetasearch: main() of collect_metasearch_only.py.  The queries are    *)
(* numbered from 0 as in the list handed to process_queries; a row of        *)
(* results is written as the number of its query.  The files of the output   *)
(* directory outlive the process: main can be run again after an interrupt.  *)

\* the AuthorityAgent is not built
AgentAbsent ==
    /\ InitAgent
    /\ rows = <<>>
    /\ checkpoint_interval = 0
    /\ authority_threshold = DefaultAuthorityThreshold
    /\ relevance_threshold = DefaultRelevanceThreshold
    /\ max_workers = 1
    /\ topk = TopK
    /\ NoMirror
    /\ pc = "absent"
    /\ start = 0
    /\ chunk_index = 0
    /\ chunk_search_results = <<>>
    /\ search_tasks = <<>>
    /\ scoring_tasks = <<>>
    /\ actor = "main"

\* progress.json: absent, or holding processed_queries
NoProgressFile == [exists |-> FALSE, processed_queries |-> 0]

ProgressFile(processed_queries) == [exists |-> TRUE, processed_queries |-> processed_queries]

\* lines 59-98: MetasearchCollector.__init__ in the run-th process over an
\* output directory that holds progress.json and the checkpoint files
NewCollector(queries, interval, workers, run, progress, files, no_hits) ==
    [pc |-> "start",
     queries |-> queries,
     checkpoint_interval |-> interval,
     max_workers |-> workers,
     timestamp |-> run,
     results |-> <<>>,
     processed_queries |-> 0,
     start_idx |-> 0,
     current_idx |-> 0,
     futures |-> <<>>,
     progress_file |-> progress,
     checkpoint_files |-> files,
     no_hits |-> no_hits]

InitMetasearch ==
    /\ AgentAbsent
    /\ scorer = NoScorerCall
    /\ \E queries \in 1..MaxQueries :
       \E interval \in 0..MaxQueryInterval :
       \E workers \in 1..MaxWorkers :
          collector = NewCollector(queries, interval, workers, 1, NoProgressFile,
                                   EmptyDict, {})

\* lines 100-111
LoadProgress ==
    IF collector.progress_file.exists THEN collector.progress_file.processed_queries
    ELSE 0

\* lines 194-212: the progress is loaded and the remaining queries are
\* submitted
ProcessQueries ==
    /\ collector.pc = "start"
    /\ collector' =
         IF LoadProgress >= collector.queries
         THEN [collector EXCEPT !.pc = "done", !.start_idx = LoadProgress]
         ELSE [collector EXCEPT
                 !.pc = "loop",
                 !.start_idx = LoadProgress,
                 !.current_idx = LoadProgress,
                 !.futures = [j \in 1..(collector.queries - LoadProgress) |->
                                 [idx |-> LoadProgress + j - 1, at |-> "queued",
                                  results |-> <<>>]]]
    /\ UNCHANGED <<agent_vars, scorer>>

\* a worker of the pool takes the next queued call of fetch_metasearch_results
FetchMetasearchStarts ==
    /\ collector.pc = "loop"
    /\ \E j \in DOMAIN collector.futures :
         /\ collector.futures[j].at = "queued"
         /\ \A i \in DOMAIN collector.futures : i < j => collector.futures[i].at # "queued"
         /\ Cardinality({i \in DOMAIN collector.futures :
                            collector.futures[i].at = "running"}) < collector.max_workers
         /\ collector' = [collector EXCEPT !.futures[j].at = "running"]
    /\ UNCHANGED <<agent_vars, scorer>>

\* lines 123-160: the call returns the hits of its query, or [] when the
\* search failed or gave no usable item
FetchMetasearchReturns ==
    /\ \E j \in DOMAIN collector.futures :
         /\ collector.futures[j].at = "running"
         /\ \E results \in {<<>>, <<collector.futures[j].idx>>} :
              collector' = [collector EXCEPT !.futures[j].at = "done",
                                             !.futures[j].results = results]
    /\ UNCHANGED <<agent_vars, scorer>>
\* the rows written stay in the buffer
SaveCheckpointKeepsResults(c, start_idx, end_idx) ==
    IF c.results = <<>> THEN c
    ELSE [c EXCEPT
            !.checkpoint_files = Put(@, <<start_idx, end_idx, c.timestamp>>, c.results),
            !.progress_file = ProgressFile(end_idx)]

\* lines 162-189: save_checkpoint(start_idx, end_idx) of a collector c
SaveCheckpointOf(c, start_idx, end_idx) ==
    IF c.results = <<>> THEN c
    ELSE [c EXCEPT
            !.checkpoint_files = Put(@, <<start_idx, end_idx, c.timestamp>>, c.results),
            !.progress_file = ProgressFile(end_idx),
            !.results = <<>>]

\* lines 216-233: as_completed yields a finished future
TakeFuture ==
    /\ collector.pc = "loop"
    /\ \E j \in DOMAIN collector.futures :
         LET future == collector.futures[j]
             taken == [collector EXCEPT
                         !.futures[j].at = "taken",
                         !.results = @ \o future.results,
                         !.processed_queries = @ + 1,
                         !.current_idx = future.idx + 1,
                         !.no_hits = IF future.results = <<>> THEN @ \cup {future.idx}
                                     ELSE @]
         IN /\ future.at = "done"
            /\ collector' =
                 IF /\ taken.checkpoint_interval > 0
                    /\ taken.processed_queries % taken.checkpoint_interval = 0
                 THEN SaveCheckpointOf(taken,
                                       taken.current_idx - taken.checkpoint_interval,
                                       taken.current_idx)
                 ELSE taken
    /\ UNCHANGED <<agent_vars, scorer>>

\* lines 235-238: the loop is over, what is left is saved
SaveRemaining ==
    /\ collector.pc = "loop"
    /\ \A j \in DOMAIN collector.futures : collector.futures[j].at = "taken"
    /\ collector' =
         [SaveCheckpointOf(collector, collector.current_idx - Len(collector.results),
                           collector.current_idx)
            EXCEPT !.pc = "done"]
    /\ UNCHANGED <<agent_vars, scorer>>

\* lines 456-459 of main: a KeyboardInterrupt leaves process_queries; the
\* handler saves stats["processed_queries"] as the progress and raises
CollectorInterrupted ==
    /\ collector.pc = "loop"
    /\ collector' = [collector EXCEPT
                       !.pc = "interrupted",
                       !.progress_file = ProgressFile(collector.processed_queries)]
    /\ UNCHANGED <<agent_vars, scorer>>

\* main is run again over the same queries and the same output directory
RunAgain ==
    /\ collector.pc = "interrupted"
    /\ collector.timestamp < MaxRuns
    /\ collector' = NewCollector(collector.queries, collector.checkpoint_interval,
                                 collector.max_workers, collector.timestamp + 1,
                                 collector.progress_file, collector.checkpoint_files,
                                 collector.no_hits)
    /\ UNCHANGED <<agent_vars, scorer>>

NextMetasearch ==
    \/ ProcessQueries
    \/ FetchMetasearchStarts
    \/ FetchMetasearchReturns
    \/ TakeFuture
    \/ SaveRemaining
    \/ CollectorInterrupted
    \/ RunAgain

SpecMetasearch == InitMetasearch /\ [][NextMetasearch]_vars

----------------------------------------------------------------------------
(* SpecScorer: score_authority_cached and score_relevance_cached of          *)
(* scoring_optimized.py, called one at a time as score_single_result of the  *)
(* pipeline calls them when main_pipeline.py has wired them in.  The caches  *)
(* and the clients are module globals and outlive a call.                    *)

\* scoring_optimized.py line 22
MAX_RETRIES == 2

\* the value returned when no score was obtained: lines 166, 196, 212, 214
\* for authority, lines 232, 270, 286, 288 for relevance
FailureSentinel(function) == IF function = "authority" THEN 0 ELSE -1

\* lines 203 and 277: the labels that are kept as a score
ValidLabels(function) == IF function = "authority" THEN 1..4 ELSE 0..2

\* lines 202 and 276: parsed.get("标签", default)
DefaultLabel(function) == IF function = "authority" THEN 0 ELSE -1

\* the arguments that make the cache key: the host for authority, the hash
\* of query, title and content for relevance
CacheKeys(function) == IF function = "authority" THEN {"a.com", "b.com"} ELSE {"x", "y"}

\* what one call of client.chat.completions.create and the parsing of its
\* answer can give: an exception, an empty content, a content without JSON
\* block, a label that int() rejects, or an integer label
GatewayReplies ==
    {[kind |-> kind, label |-> 0] : kind \in {"raises", "empty", "no_json", "not_a_number"}}
    \cup {[kind |-> "label", label |-> n] : n \in -1..5}

NewScorer(api_key) ==
    [pc |-> "idle",
     api_key |-> api_key,
     cache |-> [authority |-> EmptyDict, relevance |-> EmptyDict],
     calls |-> 0,
     function |-> "authority",
     key |-> "a.com",
     attempt |-> 0,
     gateway_calls |-> 0,
     failed_attempts |-> 0,
     succeeded |-> FALSE,
     value |-> 0,
     row_score |-> 0]

InitScorer ==
    /\ AgentAbsent
    /\ collector = NoMetasearchCollector
    /\ \E api_key \in BOOLEAN : scorer = NewScorer(api_key)

\* lines 159-160 and 224-226: the key is in the cache
ScorerCacheHit ==
    /\ scorer.pc = "idle"
    /\ scorer.calls < MaxScorerCalls
    /\ \E function \in {"authority", "relevance"} :
       \E key \in CacheKeys(function) :
          /\ key \in DOMAIN scorer.cache[function]
          /\ scorer' = [scorer EXCEPT !.pc = "returned",
                                      !.function = function,
                                      !.key = key,
                                      !.attempt = 0,
                                      !.gateway_calls = 0,
                                      !.failed_attempts = 0,
                                      !.succeeded = FALSE,
                                      !.value = scorer.cache[function][key]]
    /\ UNCHANGED <<agent_vars, collector>>

\* lines 162-166 and 228-232: the client cannot be made without
\* DIRECT_LLM_API_KEY, the sentinel is returned
ScorerClientFails ==
    /\ scorer.pc = "idle"
    /\ scorer.calls < MaxScorerCalls
    /\ ~scorer.api_key
    /\ \E function \in {"authority", "relevance"} :
       \E key \in CacheKeys(function) :
          /\ key \notin DOMAIN scorer.cache[function]
          /\ scorer' = [scorer EXCEPT !.pc = "returned",
                                      !.function = function,
                                      !.key = key,
                                      !.attempt = 0,
                                      !.gateway_calls = 0,
                                      !.failed_attempts = 0,
                                      !.succeeded = FALSE,
                                      !.value = FailureSentinel(function)]
    /\ UNCHANGED <<agent_vars, collector>>

\* lines 168-173 and 234-243: the loop over range(1, MAX_RETRIES + 2) is entered
ScorerEntersLoop ==
    /\ scorer.pc = "idle"
    /\ scorer.calls < MaxScorerCalls
    /\ scorer.api_key
    /\ \E function \in {"authority", "relevance"} :
       \E key \in CacheKeys(function) :
          /\ key \notin DOMAIN scorer.cache[function]
          /\ scorer' = [scorer EXCEPT !.pc = "attempt",
                                      !.function = function,
                                      !.key = key,
                                      !.attempt = 1,
                                      !.gateway_calls = 0,
                                      !.failed_attempts = 0,
                                      !.succeeded = FALSE]
    /\ UNCHANGED <<agent_vars, collector>>

\* the exception of the last attempt leaves the function
AttemptFailedRaises(s) ==
    IF s.attempt >= MAX_RETRIES + 1
    THEN [s EXCEPT !.pc = "raised", !.failed_attempts = @ + 1]
    ELSE [s EXCEPT !.attempt = @ + 1, !.failed_attempts = @ + 1]

\* lines 193-199 and 209-213 (267-273 and 283-287): an attempt without
\* score; the last one returns the sentinel, the others sleep and go on
AttemptFailed(s) ==
    IF s.attempt >= MAX_RETRIES + 1
    THEN [s EXCEPT !.pc = "returned", !.failed_attempts = @ + 1,
                   !.value = FailureSentinel(s.function)]
    ELSE [s EXCEPT !.attempt = @ + 1, !.failed_attempts = @ + 1]

\* lines 201-208 and 275-282: the label is read, a label out of range becomes
\* the sentinel, the score is cached and returned
AttemptScored(s, label) ==
    LET score == IF label \in ValidLabels(s.function) THEN label
                 ELSE FailureSentinel(s.function)
    IN [s EXCEPT !.pc = "returned",
                 !.succeeded = TRUE,
                 !.value = score,
                 !.cache[s.function] = Put(@, s.key, score)]

\* lines 173-213 and 243-287: one pass of the loop
GatewayAnswers ==
    /\ scorer.pc = "attempt"
    /\ \E reply \in GatewayReplies :
         LET called == [scorer EXCEPT !.gateway_calls = @ + 1]
         IN scorer' =
              CASE reply.kind \in {"raises", "empty", "not_a_number"} -> AttemptFailed(called)
                [] reply.kind = "no_json" ->
                     AttemptScored(called, DefaultLabel(called.function))
                [] OTHER -> AttemptScored(called, reply.label)
    /\ UNCHANGED <<agent_vars, collector>>

\* pipeline.py lines 155-171: score_single_result unpacks the returned value
\* into score and reason; a value that is no pair makes the unpacking raise
\* and the except branch stores the sentinel of the pipeline
UnpackedScore(function, value) ==
    IF value \in Int
    THEN IF function = "authority" THEN AuthorityFailed ELSE RelevanceFailed
    ELSE value[1]

ScoreSingleResultUnpacks ==
    /\ scorer.pc \in {"returned", "raised"}
    /\ scorer' = [scorer EXCEPT
                    !.pc = "row",
                    !.row_score =
                       IF scorer.pc = "raised"
                       THEN IF scorer.function = "authority" THEN AuthorityFailed
                            ELSE RelevanceFailed
                       ELSE UnpackedScore(scorer.function, scorer.value)]
    /\ UNCHANGED <<agent_vars, collector>>

\* the next scorer call of the run
ScorerNextCall ==
    /\ scorer.pc = "row"
    /\ scorer' = [scorer EXCEPT !.pc = "idle", !.calls = @ + 1]
    /\ UNCHANGED <<agent_vars, collector>>

NextScorer ==
    \/ ScorerCacheHit
    \/ ScorerClientFails
    \/ ScorerEntersLoop
    \/ GatewayAnswers
    \/ ScoreSingleResultUnpacks
    \/ ScorerNextCall

SpecScorer == InitScorer /\ [][NextScorer]_vars

----------------------------------------------------------------------------
(* SpecScorerThreads: score_authority_cached called by the worker threads of *)
(* the scoring executor (score_single_result runs on max_workers threads).   *)
(* _authority_cache is a module global that the threads read and write       *)
(* without a lock; a lookup and a store of the dict are each atomic.         *)

IdleThread == [pc |-> "idle", host |-> "a.com", attempt |-> 0, calls |-> 0]

\* returns: the pairs of host and value that the calls have returned
NewScorerThreads(api_key) ==
    [pc |-> "threads",
     api_key |-> api_key,
     authority_cache |-> EmptyDict,
     threads |-> [t \in 1..MaxWorkers |-> IdleThread],
     returns |-> {}]

InitScorerThreads ==
    /\ AgentAbsent
    /\ collector = NoMetasearchCollector
    /\ \E api_key \in BOOLEAN : scorer = NewScorerThreads(api_key)

\* the call of thread t returns value
ThreadReturned(s, t, value) ==
    [s EXCEPT !.threads[t].pc = "idle",
              !.threads[t].calls = @ + 1,
              !.returns = @ \cup {<<s.threads[t].host, value>>}]

\* lines 158-173: thread t calls score_authority_cached(host): the cached
\* score is returned, or the sentinel when no client can be made, or the loop
\* is entered
ThreadCalls ==
    /\ scorer.pc = "threads"
    /\ \E t \in 1..MaxWorkers :
       \E host \in CacheKeys("authority") :
          LET called == [scorer EXCEPT !.threads[t].host = host] IN
          /\ scorer.threads[t].pc = "idle"
          /\ scorer.threads[t].calls < MaxThreadCalls
          /\ scorer' =
               IF host \in DOMAIN scorer.authority_cache
               THEN ThreadReturned(called, t, scorer.authority_cache[host])
               ELSE IF ~scorer.api_key
               THEN ThreadReturned(called, t, FailureSentinel("authority"))
               ELSE [called EXCEPT !.threads[t].pc = "attempt",
                                   !.threads[t].attempt = 1]
    /\ UNCHANGED <<agent_vars, collector>>

\* lines 173-213: one pass of the loop of thread t
ThreadGatewayAnswers ==
    /\ scorer.pc = "threads"
    /\ \E t \in 1..MaxWorkers :
       \E reply \in GatewayReplies :
          LET thread == scorer.threads[t]
              label == IF reply.kind = "no_json" THEN DefaultLabel("authority")
                       ELSE reply.label
              score == IF label \in ValidLabels("authority") THEN label
                       ELSE FailureSentinel("authority")
          IN
          /\ thread.pc = "attempt"
          /\ scorer' =
               IF reply.kind \in {"raises", "empty", "not_a_number"}
               THEN IF thread.attempt >= MAX_RETRIES + 1
                    THEN ThreadReturned(scorer, t, FailureSentinel("authority"))
                    ELSE [scorer EXCEPT !.threads[t].attempt = @ + 1]
               ELSE ThreadReturned(
                       [scorer EXCEPT !.authority_cache = Put(@, thread.host, score)],
                       t, score)
    /\ UNCHANGED <<agent_vars, collector>>

NextScorerThreads ==
    \/ ThreadCalls
    \/ ThreadGatewayAnswers

SpecScorerThreads == InitScorerThreads /\ [][NextScorerThreads]_vars

----------------------------------------------------------------------------
(* Properties of the collector *)

Last(seq) == seq[Len(seq)]

Rows(seq) == {seq[k] : k \in DOMAIN seq}

KeyOf(rec) == <<rec.query, rec.url>>

StoredScore(h) == ToInt(authority_hosts[h].authority_score)

\* a step that ran _collect_scored_result
CollectStep == hist_collect_calls' # hist_collect_calls

\* C1 as stated: for every host referenced by at least one call of
\* _collect_scored_result, the score stored in authority_hosts is the highest
\* authority score passed for that host.
C1_StoredIsMaxOfAllCalls ==
    \A h \in Hosts :
        hist_max_authority[h] >= 0 =>
            /\ h \in DOMAIN authority_hosts
            /\ StoredScore(h) = hist_max_authority[h]

\* C1 amended: for every host referenced by at least one call whose authority
\* score reached authority_threshold, the stored score is the highest authority
\* score passed for that host in any call, within or across chunks; a host whose
\* scores all stayed below the threshold has no entry.
C1_StoredIsMaxOfQualifyingCalls ==
    \A h \in Hosts :
        IF hist_max_authority[h] >= authority_threshold
        THEN /\ h \in DOMAIN authority_hosts
             /\ StoredScore(h) = hist_max_authority[h]
        ELSE h \notin DOMAIN authority_hosts

\* two calls for one host, the second with a lower score that still passes the
\* threshold, and the first score is the one stored
C1_Witness ==
    /\ Len(all_results_with_scores) = 2
    /\ all_results_with_scores[1].host = all_results_with_scores[2].host
    /\ all_results_with_scores[1].authority_score > all_results_with_scores[2].authority_score
    /\ all_results_with_scores[2].authority_score >= authority_threshold
    /\ StoredScore(all_results_with_scores[1].host) = all_results_with_scores[1].authority_score

\* C2: over the whole run at most one QnA record is emitted for a (query, url)
\* pair: the pairs emitted are exactly those of qna_seen_keys, each emitted once,
\* total_qna_records counts them, and a call for a pair already seen appends
\* nothing to qna_records and leaves total_qna_records as it was, in the same
\* chunk and after _reset_chunk_state.
C2_OneQnaRecordPerPair ==
    /\ [](/\ \A key \in DOMAIN hist_qna_emitted :
               hist_qna_emitted[key] = IF key \in qna_seen_keys THEN 1 ELSE 0
          /\ total_qna_records = Cardinality(qna_seen_keys))
    /\ [][CollectStep /\ QualifiesForQna(hist_last_scored')
             /\ KeyOf(hist_last_scored'.result) \in qna_seen_keys
          => /\ qna_records' = qna_records
             /\ total_qna_records' = total_qna_records
             /\ qna_seen_keys' = qna_seen_keys]_vars

\* in a later chunk a pair that already gave a record qualifies again and no
\* record is appended
C2_Witness ==
    /\ chunk_index = 2
    /\ Len(all_results_with_scores) = 1
    /\ QualifiesForQna(hist_last_scored)
    /\ ScoredRow(hist_last_scored) = all_results_with_scores[1]
    /\ hist_qna_emitted[KeyOf(hist_last_scored.result)] = 1
    /\ qna_records = <<>>
    /\ total_qna_records = 1

\* C4: a scored result becomes a QnA record only if it passes the authority
\* threshold and the relevance threshold, and every scored result, whatever
\* its scores, is appended to all_results_with_scores exactly once.
C4_QnaNeedsBothGates ==
    [][CollectStep =>
        /\ all_results_with_scores' =
              Append(all_results_with_scores, ScoredRow(hist_last_scored'))
        /\ total_all_results' = total_all_results + 1
        /\ qna_records' # qna_records =>
              /\ hist_last_scored'.authority_score >= authority_threshold
              /\ hist_last_scored'.relevance_score >= relevance_threshold
              /\ qna_records' = Append(qna_records, QnaRecord(hist_last_scored'))]_vars

\* a result that passes the relevance threshold alone is in the table of all
\* results and gave no QnA record
C4_Witness ==
    /\ all_results_with_scores # <<>>
    /\ Last(all_results_with_scores) = ScoredRow(hist_last_scored)
    /\ hist_last_scored.relevance_score >= relevance_threshold
    /\ hist_last_scored.authority_score < authority_threshold
    /\ hist_last_scored.authority_score # AuthorityFailed
    /\ KeyOf(hist_last_scored.result) \notin qna_seen_keys
    /\ qna_records = <<>>

\* C5: the thresholds are inclusive.  A result whose authority score equals
\* authority_threshold passes the gate: its host has an entry afterwards, the
\* entry of this very call when the host had none, and when its relevance
\* score equals relevance_threshold its pair is in qna_seen_keys afterwards,
\* with a new QnA record when the pair was not seen before.  A result one
\* point below authority_threshold changes neither host map nor the QnA
\* records.
C5_ThresholdsInclusive ==
    [][CollectStep =>
        LET scored == hist_last_scored'
            host == scored.result.host
            key == KeyOf(scored.result)
        IN
        /\ scored.authority_score = authority_threshold =>
              /\ host \in DOMAIN authority_hosts'
              /\ host \notin DOMAIN authority_hosts =>
                    /\ authority_hosts'[host] =
                          HostEntry(authority_threshold, scored.authority_reason)
                    /\ host \in DOMAIN authority_hosts_updates'
                    /\ authority_hosts_updates'[host] = authority_hosts'[host]
              /\ scored.relevance_score = relevance_threshold =>
                    /\ key \in qna_seen_keys'
                    /\ key \notin qna_seen_keys =>
                          qna_records' = Append(qna_records, QnaRecord(scored))
        /\ scored.authority_score = authority_threshold - 1 =>
              UNCHANGED <<authority_hosts, authority_hosts_updates, qna_records,
                          qna_seen_keys, total_qna_records>>]_vars

\* a result with both scores exactly at the thresholds gave the host entry
\* and a QnA record
C5_Witness ==
    /\ Len(all_results_with_scores) = 1
    /\ hist_last_scored.authority_score = authority_threshold
    /\ hist_last_scored.relevance_score = relevance_threshold
    /\ hist_last_scored.result.host \in DOMAIN authority_hosts
    /\ StoredScore(hist_last_scored.result.host) = authority_threshold
    /\ qna_records = <<QnaRecord(hist_last_scored)>>

\* C6: a host's entry is written only by a call whose authority score passes
\* the threshold and is strictly greater than the stored score (or finds no
\* entry); a call with an equal or lower score leaves score and rationale as
\* they were, the entries of other hosts never change, and a host all of whose
\* scores are below the threshold is not in the map.
C6_HostEntryStrictMax ==
    /\ [](\A h \in DOMAIN authority_hosts : hist_max_authority[h] >= authority_threshold)
    /\ [][CollectStep =>
            LET scored == hist_last_scored'
                host == scored.result.host
                had == host \in DOMAIN authority_hosts
            IN
            /\ \A h \in Hosts \ {host} :
                  /\ h \in DOMAIN authority_hosts' <=> h \in DOMAIN authority_hosts
                  /\ h \in DOMAIN authority_hosts => authority_hosts'[h] = authority_hosts[h]
            /\ authority_hosts' # authority_hosts =>
                  /\ scored.authority_score >= authority_threshold
                  /\ had => scored.authority_score > StoredScore(host)
                  /\ authority_hosts'[host] =
                        HostEntry(scored.authority_score, scored.authority_reason)
            /\ had /\ scored.authority_score <= StoredScore(host) =>
                  authority_hosts' = authority_hosts]_vars

\* a second call for a host with the score already stored: the entry keeps the
\* rationale of the first call
C6_Witness ==
    /\ Len(all_results_with_scores) = 2
    /\ all_results_with_scores[1].host = all_results_with_scores[2].host
    /\ all_results_with_scores[1].authority_score = all_results_with_scores[2].authority_score
    /\ all_results_with_scores[1].authority_score >= authority_threshold
    /\ all_results_with_scores[1].authority_reason # all_results_with_scores[2].authority_reason
    /\ authority_hosts[all_results_with_scores[1].host].authority_reason =
          all_results_with_scores[1].authority_reason

----------------------------------------------------------------------------
(* Properties of process_dataframe *)

InFlight(tasks) == {i \in DOMAIN tasks : tasks[i].at \notin {"done", "taken"}}

Started(tasks) == {i \in DOMAIN tasks : tasks[i].at # "queued"}

RECURSIVE SumOver(_, _)
SumOver(f, keys) ==
    IF keys = {} THEN 0
    ELSE LET k == CHOOSE x \in keys : TRUE IN f[k] + SumOver(f, keys \ {k})

\* the rows for a pair in a table
RowsFor(table, key) == Cardinality({k \in DOMAIN table : KeyOf(table[k]) = key})

\* the rows for a pair in the filtered_qna tables of all the files of one kind
FilteredRowsFor(files, key) ==
    SumOver([name \in DOMAIN files |-> RowsFor(files[name].filtered_qna, key)],
            DOMAIN files)

\* the files whose table of all results holds the pair scored (4, 2)
ChunksScoring42(files, key) ==
    {name \in DOMAIN files :
        \E k \in DOMAIN files[name].all_results_with_scores :
            LET row == files[name].all_results_with_scores[k] IN
            /\ KeyOf(row) = key
            /\ row.authority_score = "4"
            /\ row.relevance_score = "2"}

\* C3: when two chunks each produce a hit for the same (query, url) pair
\* scored authority 4 and relevance 2, the QnA tables persisted for all the
\* chunks hold one record for the pair between them, in the checkpoints and in
\* the CSV parts.
C3_OnePersistedRecordPerPair ==
    \A key \in Queries \X Urls :
        /\ Cardinality(ChunksScoring42(csv_parts, key)) >= 2 =>
              FilteredRowsFor(csv_parts, key) = 1
        /\ Cardinality(ChunksScoring42(checkpoint_files, key)) >= 2 =>
              FilteredRowsFor(checkpoint_files, key) = 1

\* C7: while a search task of the chunk has not completed, no scoring task of
\* the chunk has been submitted, let alone started.
C7_SearchDrainsBeforeScoring ==
    InFlight(search_tasks) # {} => scoring_tasks = <<>>

\* a scoring task runs after the two search tasks of its chunk have completed
C7_Witness ==
    /\ Len(search_tasks) = 2
    /\ InFlight(search_tasks) = {}
    /\ \E k \in DOMAIN scoring_tasks : scoring_tasks[k].at = "scoring"

\* the rows of all results written to the CSV parts so far
PersistedRows ==
    SumOver([name \in DOMAIN csv_parts |-> Len(csv_parts[name].all_results_with_scores)],
            DOMAIN csv_parts)

\* C8: the tasks of a chunk are submitted only once no task of the chunk
\* before is in flight, every row it aggregated has been persisted and its
\* buffers have been reset; so the tasks in flight are those of one chunk.
C8_ChunksStrictlySequential ==
    [][chunk_index' # chunk_index =>
          /\ chunk_index' = chunk_index + 1
          /\ AllTaken(search_tasks) /\ AllTaken(scoring_tasks)
          /\ metasearch_results = <<>> /\ all_results_with_scores = <<>>
          /\ qna_records = <<>> /\ DOMAIN authority_hosts_updates = {}
          /\ PersistedRows = total_all_results
          /\ csv_part_index = Cardinality(DOMAIN csv_parts)
          /\ checkpoint_interval > 0 => checkpoint_count = csv_part_index]_vars

\* a search task of the second chunk is in flight after the first chunk was
\* scored and persisted
C8_Witness ==
    /\ chunk_index = 2
    /\ csv_part_index = 1
    /\ InFlight(search_tasks) # {}
    /\ Started(search_tasks) # {}

\* C9: worker tasks never change the state of the collector; they only return
\* values, and every change is made by the thread running process_dataframe.
C9_WorkersOnlyReturnValues ==
    [][actor' = "worker" => UNCHANGED <<chunk_vars, cumulative_vars>>]_vars

\* C10: _collect_scored_result runs on the thread of process_dataframe only,
\* one call at a time while scoring tasks complete on the pool: each call adds
\* one row to what the call before left, and none is lost.
C10_AggregationSerialized ==
    /\ [](total_all_results = hist_collect_calls)
    /\ [][CollectStep =>
            /\ actor' = "main"
            /\ pc = "score"
            /\ hist_collect_calls' = hist_collect_calls + 1
            /\ all_results_with_scores' =
                  Append(all_results_with_scores, ScoredRow(hist_last_scored'))
            /\ total_all_results' = total_all_results + 1]_vars

\* two scoring tasks of a chunk completed on the pool, the second one first,
\* and both were aggregated
C10_Witness ==
    /\ Len(all_results_with_scores) = 2
    /\ all_results_with_scores[1].rank = 2
    /\ all_results_with_scores[2].rank = 1
    /\ total_all_results = 2

----------------------------------------------------------------------------
(* Properties of the chunking *)

\* the cumulative state that the outcomes of the run determine: what
\* process_dataframe leaves when it handles the queries one by one, whatever
\* the outcomes were
CumulativeStateOfOutcomes ==
    /\ stats.total_queries = Len(rows)
    /\ stats.search_success + stats.search_failed = Len(rows)
    /\ total_metasearch_records = hist_collect_calls
    /\ total_all_results = hist_collect_calls
    /\ total_qna_records = Cardinality(qna_seen_keys)
    /\ qna_seen_keys = {key \in DOMAIN hist_qna_emitted : hist_qna_emitted[key] > 0}
    /\ DOMAIN authority_hosts = {h \in Hosts : hist_max_authority[h] >= authority_threshold}
    /\ \A h \in DOMAIN authority_hosts : StoredScore(h) = hist_max_authority[h]

\* a run in chunks of one query ends in the cumulative state of its outcomes
QueryByQueryRunIsExact ==
    pc = "done" /\ ChunkSize = 1 => CumulativeStateOfOutcomes

\* C11: for the same queries and the same search and scoring outcomes the
\* cumulative state at the end of the run does not depend on the chunk size: a
\* run over all the queries in one chunk ends with the host map, the QnA keys,
\* the statistics and the totals of the run in chunks.
C11_ChunkingPreservesCumulativeState ==
    pc = "done" => CumulativeStateOfOutcomes

\* the chunk size C of a run over N queries: checkpoint_interval, or N when
\* checkpoint_interval is 0
ChunkSizeOfRun == IF checkpoint_interval > 0 THEN checkpoint_interval ELSE Len(rows)

\* ceil(n / c)
CeilDiv(n, c) == (n + c - 1) \div c

\* the queries submitted for the chunk that is being searched
ChunkQueries == [i \in DOMAIN search_tasks |-> search_tasks[i].query]

\* C12: the k-th chunk begun holds the queries (k-1)C+1 .. min(kC, N) of the
\* batch in their order, so chunks are contiguous, every query is in exactly
\* one chunk and every chunk but the last has C queries; when the run ends
\* ceil(N/C) chunks were begun; with checkpoint_interval = 0 the one chunk
\* begun holds all N queries (no chunk is begun for an empty batch).
C12_ContiguousChunks ==
    /\ [](pc = "done" /\ Len(rows) > 0 =>
             chunk_index = CeilDiv(Len(rows), ChunkSizeOfRun))
    /\ [](pc = "done" /\ Len(rows) = 0 => chunk_index = 0)
    /\ [][chunk_index' # chunk_index =>
            LET k == chunk_index'
                C == ChunkSizeOfRun
                N == Len(rows)
                first == (k - 1) * C
                size == IF k * C <= N THEN C ELSE N - first
            IN /\ k = chunk_index + 1
               /\ first < N
               /\ Len(ChunkQueries') = size
               /\ \A i \in 1..size : ChunkQueries'[i] = rows[first + i]
               /\ checkpoint_interval = 0 => k = 1 /\ size = N]_vars

\* three queries in chunks of two: the second chunk holds the third query alone
C12_Witness ==
    /\ Len(rows) = 3
    /\ checkpoint_interval = 2
    /\ chunk_index = 2
    /\ ChunkQueries = <<"x">>
    /\ pc = "search"

----------------------------------------------------------------------------
(* Properties of the checkpoints *)

\* the name of the k-th checkpoint directory of a run
DirectoryName(k) ==
    LET names == <<"checkpoint_001", "checkpoint_002", "checkpoint_003",
                   "checkpoint_004", "checkpoint_005", "checkpoint_006">>
    IN IF k \in DOMAIN names THEN names[k] ELSE "checkpoint_" \o ToStr(k)

\* the checkpoint directories are checkpoint_001 .. checkpoint_n, n the number
\* of checkpoints written
DirectoriesAreNumbered ==
    /\ DOMAIN checkpoint_files = {DirectoryName(k) : k \in 1..checkpoint_count}
    /\ Cardinality(DOMAIN checkpoint_files) = checkpoint_count

\* C13 as stated: with checkpointing enabled every chunk produces its own
\* checkpoint directory, the k-th being checkpoint_k padded to three digits.
C13_EveryChunkHasItsCheckpoint ==
    checkpoint_interval > 0 =>
        /\ DirectoriesAreNumbered
        /\ pc \in {"loop", "done"} => checkpoint_count = chunk_index

\* C13 amended: with checkpointing enabled every chunk whose search produced at
\* least one hit writes its own checkpoint directory and a chunk without hits
\* writes none; the k-th directory written is checkpoint_k padded to three
\* digits, the numbers grow by one without gap or reuse, and a directory
\* once written is not written again, so the order of the names is the order
\* in which the chunks with hits were processed.
C13_CheckpointNamesSequential ==
    /\ [](checkpoint_interval > 0 => DirectoriesAreNumbered)
    /\ [](checkpoint_interval = 0 => DOMAIN checkpoint_files = {})
    /\ [][checkpoint_files' # checkpoint_files =>
            /\ chunk_search_results # <<>>
            /\ checkpoint_count' = checkpoint_count + 1
            /\ DirectoryName(checkpoint_count') \notin DOMAIN checkpoint_files
            /\ DOMAIN checkpoint_files' =
                  DOMAIN checkpoint_files \cup {DirectoryName(checkpoint_count')}
            /\ \A name \in DOMAIN checkpoint_files :
                  checkpoint_files'[name] = checkpoint_files[name]
            /\ checkpoint_files'[DirectoryName(checkpoint_count')].all_results_with_scores =
                  AllResultsTable(all_results_with_scores)]_vars
    /\ [][checkpoint_interval > 0 /\ pc # "loop" /\ pc' = "loop" =>
            IF chunk_search_results # <<>>
            THEN /\ checkpoint_count = csv_part_index'
                 /\ checkpoint_files[DirectoryName(checkpoint_count)].all_results_with_scores =
                       AllResultsTable(all_results_with_scores)
            ELSE checkpoint_files' = checkpoint_files]_vars

\* the second of three chunks had no hit: the checkpoint of the third chunk is
\* checkpoint_002
C13_Witness ==
    /\ checkpoint_interval = 1
    /\ chunk_index = 3
    /\ csv_part_index = 2
    /\ pc = "loop"
    /\ DOMAIN checkpoint_files = {"checkpoint_001", "checkpoint_002"}

\* C14: a chunk whose search phase ended without a hit submits no scoring
\* task and persists nothing: the loop goes straight on to the next chunk with
\* checkpoint_count, csv_part_index and the files written left as they were,
\* and scoring and persistence only ever run for a chunk with hits.
C14_EmptyChunkSkipped ==
    /\ [](pc \in {"score", "save", "csv"} \/ scoring_tasks # <<>> =>
             chunk_search_results # <<>>)
    /\ [][pc = "search" /\ pc' # "search" /\ chunk_search_results = <<>> =>
            /\ InFlight(search_tasks) = {}
            /\ pc' = "loop"
            /\ start' = start + ChunkSizeOfRun
            /\ scoring_tasks' = <<>>
            /\ hist_collect_calls' = hist_collect_calls
            /\ UNCHANGED <<checkpoint_count, csv_part_index, checkpoint_files,
                           csv_parts>>]_vars

\* the first chunk had no hit and left no file; the second chunk is scored
C14_Witness ==
    /\ chunk_index = 2
    /\ pc = "score"
    /\ checkpoint_interval = 1
    /\ checkpoint_count = 0
    /\ csv_part_index = 0
    /\ DOMAIN checkpoint_files = {}
    /\ stats.total_queries = 2

----------------------------------------------------------------------------
(* Properties of the remote mirror *)

\* a step of save_checkpoint
SaveStep == pc = "save" /\ pc' # "save"

\* the directory of the checkpoint just written holds every table of the chunk
LocalWritesDone ==
    \E hosts_table \in HostTables(authority_hosts_updates) :
        checkpoint_files'[DirectoryName(checkpoint_count')] = LocalCheckpoint(hosts_table)

\* the remote files written by the step
RemoteWrites == {path \in DOMAIN oss_files' :
                    path \notin DOMAIN oss_files \/ oss_files'[path] # oss_files[path]}

\* every table of the checkpoint just written that has a file and a remote
\* path has a remote file
RemoteWritesDone ==
    \A k \in 1..3 :
        LET table == LocalTable(checkpoint_files'[DirectoryName(checkpoint_count')], k) IN
        table # <<>> /\ OssBasePath(k) # "" =>
            OssFilePath(k, DirectoryName(checkpoint_count')) \in DOMAIN oss_files'

\* C15: save_checkpoint is fail-fast.  It returns normally only when every
\* local write was made and, with the mirror enabled, a client is configured
\* and every remote write was made; otherwise it raises, and after that the
\* chunk loop takes no further step.  With the mirror disabled no remote write
\* is attempted and the checkpoint fails only when a local write failed.
C15_CheckpointFailFast ==
    /\ [][pc = "failed" => FALSE]_vars
    /\ [][SaveStep => pc' \in {"csv", "failed"}]_vars
    /\ [][SaveStep /\ pc' = "csv" =>
            /\ LocalWritesDone
            /\ enable_oss_upload => oss_upload_client # None /\ RemoteWritesDone]_vars
    /\ [][SaveStep /\ enable_oss_upload /\ oss_upload_client = None =>
            pc' = "failed" /\ RemoteWrites = {}]_vars
    /\ [][SaveStep /\ ~enable_oss_upload =>
            /\ RemoteWrites = {}
            /\ pc' = "failed" => ~LocalWritesDone]_vars
    /\ [](~enable_oss_upload => DOMAIN oss_files = {})

\* with two chunks to process the upload of the first checkpoint failed after
\* one table was mirrored, and the run stopped in the first chunk
C15_Witness ==
    /\ pc = "failed"
    /\ enable_oss_upload
    /\ oss_upload_client # None
    /\ Len(rows) = 2
    /\ checkpoint_interval = 1
    /\ chunk_index = 1
    /\ Cardinality(DOMAIN oss_files) = 1
    /\ csv_part_index = 0

\* C16: whenever the mirror is enabled and save_checkpoint returns normally,
\* every table of the checkpoint that was written locally has been written to
\* the remote store by that call.
C16_MirrorHoldsEveryLocalTable ==
    [][SaveStep /\ enable_oss_upload /\ pc' = "csv" =>
          \A k \in 1..3 :
              LET table == LocalTable(checkpoint_files'[DirectoryName(checkpoint_count')], k)
              IN table # <<>> =>
                    \E path \in RemoteWrites : oss_files'[path] = table]_vars

----------------------------------------------------------------------------
(* Properties of the buffers *)

\* the rows of all results written to the checkpoints so far
CheckpointedRows ==
    SumOver([name \in DOMAIN checkpoint_files |->
                Len(checkpoint_files[name].all_results_with_scores)],
            DOMAIN checkpoint_files)

\* C17: with checkpointing enabled the buffers of a chunk are cleared only
\* after save_checkpoint wrote them: the checkpoint is taken once every hit of
\* the chunk has been aggregated, the step that clears the buffers finds the
\* whole all-results buffer and the host delta in the last checkpoint, and
\* between chunks every aggregated row is in exactly one checkpoint.
C17_CheckpointBeforeReset ==
    /\ [](checkpoint_interval > 0 /\ pc \in {"loop", "done"} =>
             CheckpointedRows = hist_collect_calls)
    /\ [][checkpoint_interval > 0 /\ SaveStep =>
            /\ AllTaken(scoring_tasks)
            /\ Len(all_results_with_scores) = Len(chunk_search_results)
            /\ all_results_with_scores' = all_results_with_scores
            /\ authority_hosts_updates' = authority_hosts_updates]_vars
    /\ [][checkpoint_interval > 0 /\ all_results_with_scores # <<>>
             /\ all_results_with_scores' = <<>> =>
            LET dir == checkpoint_files[DirectoryName(checkpoint_count)] IN
            /\ checkpoint_count > 0
            /\ dir.all_results_with_scores = AllResultsTable(all_results_with_scores)
            /\ dir.authority_hosts \in HostTables(authority_hosts_updates)
            /\ CheckpointedRows = hist_collect_calls]_vars

\* two chunks with one hit each were aggregated, checkpointed and cleared
C17_Witness ==
    /\ checkpoint_interval = 1
    /\ pc = "done"
    /\ hist_collect_calls = 2
    /\ checkpoint_count = 2
    /\ all_results_with_scores = <<>>
    /\ Len(checkpoint_files["checkpoint_002"].all_results_with_scores) = 1

----------------------------------------------------------------------------
(* Properties of the failures of a task *)

AuthorityFailedRow(row) == row.authority_score = "0" /\ row.authority_reason = ""

RelevanceFailedRow(row) == row.relevance_score = "-1" /\ row.relevance_reason = ""

\* the rows of the CSV parts written so far whose authority scorer failed
AuthorityFailedRowsWritten ==
    SumOver([name \in DOMAIN csv_parts |->
                Cardinality({k \in DOMAIN csv_parts[name].all_results_with_scores :
                    AuthorityFailedRow(csv_parts[name].all_results_with_scores[k])})],
            DOMAIN csv_parts)

\* the rows of the CSV parts written so far whose relevance scorer failed
RelevanceFailedRowsWritten ==
    SumOver([name \in DOMAIN csv_parts |->
                Cardinality({k \in DOMAIN csv_parts[name].all_results_with_scores :
                    RelevanceFailedRow(csv_parts[name].all_results_with_scores[k])})],
            DOMAIN csv_parts)

\* the step of a worker that ends score_single_result for task k
ScoreTaskEnds(k) ==
    /\ k \in DOMAIN scoring_tasks
    /\ scoring_tasks[k].at = "scoring"
    /\ scoring_tasks'[k].at # "scoring"

\* C18: a scorer that raises does not end the task with an exception nor the
\* chunk: score_single_result returns authority_score 0 (authority scorer
\* raised) or relevance_score -1 (relevance scorer raised) with an empty
\* rationale, the task completes, every hit of the chunk gets its row in
\* all_results_with_scores, and the call that aggregates the row adds exactly 1
\* to the matching failure counter.
C18_ScoringFailureBecomesSentinel ==
    /\ [](\A result \in {SearchResult(q, u) : q \in Queries, u \in Urls} :
          \A a \in RunAuthorityReplies(1) \cup AuthorityReplies(1) :
          \A r \in RunRelevanceReplies(1) \cup RelevanceReplies(1) :
             LET scored == ScoreSingleResult(result, 1, a, r) IN
             /\ scored.result = result
             /\ IF a.raised
                THEN scored.authority_score = 0 /\ scored.authority_reason = ""
                ELSE scored.authority_score = a.score /\ scored.authority_reason = a.reason
             /\ IF r.raised
                THEN scored.relevance_score = -1 /\ scored.relevance_reason = ""
                ELSE scored.relevance_score = r.score /\ scored.relevance_reason = r.reason)
    /\ [][\A k \in DOMAIN scoring_tasks : ScoreTaskEnds(k) =>
             /\ scoring_tasks'[k].at = "done"
             /\ scoring_tasks'[k].scored.result = scoring_tasks[k].result
             /\ scoring_tasks'[k].scored.rank = scoring_tasks[k].rank
             /\ pc' = "score"]_vars
    /\ [][CollectStep =>
             LET scored == hist_last_scored' IN
             /\ Last(all_results_with_scores') = ScoredRow(scored)
             /\ stats'.authority_score_failed = stats.authority_score_failed +
                   (IF scored.authority_score = 0 THEN 1 ELSE 0)
             /\ stats'.relevance_score_failed = stats.relevance_score_failed +
                   (IF scored.relevance_score = -1 THEN 1 ELSE 0)]_vars
    /\ [](pc \in {"save", "csv"} =>
             Len(all_results_with_scores) = Len(chunk_search_results))
    /\ [](pc \in {"loop", "done"} =>
             /\ stats.authority_score_failed = AuthorityFailedRowsWritten
             /\ stats.relevance_score_failed = RelevanceFailedRowsWritten)

\* both scorers raised for the first hit of a chunk of two; the second hit was
\* scored, and both have their row
C18_Witness ==
    /\ pc = "csv"
    /\ Len(all_results_with_scores) = 2
    /\ \E k \in 1..2 :
          /\ all_results_with_scores[k].rank = 1
          /\ all_results_with_scores[k].authority_score = 0
          /\ all_results_with_scores[k].authority_reason = ""
          /\ all_results_with_scores[k].relevance_score = -1
          /\ all_results_with_scores[k].relevance_reason = ""
    /\ \E k \in 1..2 :
          /\ all_results_with_scores[k].rank = 2
          /\ all_results_with_scores[k].authority_score = 4
          /\ all_results_with_scores[k].relevance_score = 2
    /\ stats.authority_score_failed = 1
    /\ stats.relevance_score_failed = 1

\* the step of a worker that ends fetch_results for task i after the gateway
\* raised: line 111 stores the counter and line 113 returns
SearchFailureEnds(i) ==
    /\ i \in DOMAIN search_tasks
    /\ search_tasks[i].at = "w111"
    /\ search_tasks'[i].at # "w111"

\* a failed search hands no hit on and leaves the chunk running: the task
\* completes with [], the buffers are as they were, and the chunk is left only
\* when every task of it was taken
SearchFailureIsContained ==
    /\ [][\A i \in DOMAIN search_tasks : SearchFailureEnds(i) =>
             /\ search_tasks'[i].at = "done"
             /\ search_tasks'[i].results = <<>>
             /\ pc' = "search"
             /\ UNCHANGED <<chunk_vars, chunk_search_results>>]_vars
    /\ [][pc = "search" /\ pc' # "search" => InFlight(search_tasks) = {}]_vars
    /\ [](pc \in {"save", "csv"} =>
             Len(all_results_with_scores) = Len(chunk_search_results))

\* C19: the failure of the gateway for one query is recorded, search_failed
\* growing by exactly 1 with it, hands no hit to any buffer and does not end
\* the chunk.
C19_SearchFailureRecorded ==
    [][\A i \in DOMAIN search_tasks : SearchFailureEnds(i) =>
          /\ stats'.search_failed = stats.search_failed + 1
          /\ search_tasks'[i].at = "done"
          /\ search_tasks'[i].results = <<>>
          /\ pc' = "search"
          /\ UNCHANGED <<chunk_vars, chunk_search_results>>]_vars

----------------------------------------------------------------------------
(* Properties of fetch_results *)

\* the links of a reply that have a url and a host
WellFormed(items) == SelectSeq(items, LAMBDA link : link \in Urls)

\* a row or hit carries a url and a host
HasUrlAndHost(rec) == rec.url \in Urls /\ rec.host \in {"a.com", "b.com"}

AllHaveUrlAndHost(table) == \A k \in DOMAIN table : HasUrlAndHost(table[k])

\* the well-formed links among the items taken by the search tasks of the chunk
WellFormedOfChunk ==
    SumOver([i \in DOMAIN search_tasks |-> Len(WellFormed(search_tasks[i].items))],
            DOMAIN search_tasks)

\* C20: a hit without url or without host is dropped before scoring: the task
\* returns the well-formed hits of the reply in their order, no malformed hit
\* is in metasearch_results, in a scoring task, in a buffer or in a table
\* written, and metasearch_results, total_metasearch_records and the counters
\* of the scored results count well-formed hits only.
C20_MalformedHitsDropped ==
    /\ AllHaveUrlAndHost(metasearch_results)
    /\ AllHaveUrlAndHost(chunk_search_results)
    /\ AllHaveUrlAndHost(all_results_with_scores)
    /\ \A k \in DOMAIN qna_records : qna_records[k].url \in Urls
    /\ \A k \in DOMAIN scoring_tasks : HasUrlAndHost(scoring_tasks[k].result)
    /\ \A name \in DOMAIN csv_parts :
          /\ AllHaveUrlAndHost(csv_parts[name].metasearch_results)
          /\ AllHaveUrlAndHost(csv_parts[name].all_results_with_scores)
          /\ \A k \in DOMAIN csv_parts[name].filtered_qna :
                csv_parts[name].filtered_qna[k].url \in Urls
          /\ \A k \in DOMAIN csv_parts[name].authority_hosts :
                csv_parts[name].authority_hosts[k].host \in {"a.com", "b.com"}
    /\ \A name \in DOMAIN checkpoint_files :
          /\ AllHaveUrlAndHost(checkpoint_files[name].all_results_with_scores)
          /\ \A k \in DOMAIN checkpoint_files[name].authority_hosts :
                checkpoint_files[name].authority_hosts[k].host \in {"a.com", "b.com"}
    /\ DOMAIN authority_hosts \subseteq {"a.com", "b.com"}
    /\ \A i \in DOMAIN search_tasks :
          search_tasks[i].at \in {"done", "taken"} =>
             search_tasks[i].results =
                [k \in DOMAIN WellFormed(search_tasks[i].items) |->
                    SearchResult(search_tasks[i].query, WellFormed(search_tasks[i].items)[k])]
    /\ pc \in {"score", "save", "csv"} =>
          /\ Len(chunk_search_results) = WellFormedOfChunk
          /\ Len(metasearch_results) = WellFormedOfChunk
          /\ Len(scoring_tasks) = WellFormedOfChunk
    /\ pc # "search" => total_metasearch_records = total_all_results +
                           (IF pc \in {"score", "save", "csv"}
                            THEN WellFormedOfChunk - Len(all_results_with_scores) ELSE 0)
    /\ total_all_results = hist_collect_calls

\* the gateway answered two well-formed hits and one without host: two hits
\* were recorded, scored and aggregated
C20_Witness ==
    /\ pc = "csv"
    /\ Len(search_tasks) = 1
    /\ search_tasks[1].items = <<"http://a.com/1", "http://b.com/1", "b.com/7">>
    /\ Len(metasearch_results) = 2
    /\ total_metasearch_records = 2
    /\ total_all_results = 2

----------------------------------------------------------------------------
(* Properties of the filtered QnA table *)

\* the positions of the buffer whose scores are exactly the filter scores
ExactMatches(results) ==
    {k \in DOMAIN results :
        /\ results[k].authority_score = filter_authority_score
        /\ results[k].relevance_score = filter_relevance_score}

\* the position in the buffer of the j-th row with the filter scores
NthMatch(results, j) ==
    CHOOSE k \in ExactMatches(results) :
        Cardinality({i \in ExactMatches(results) : i <= k}) = j

\* C21: the filtered_qna table of a checkpoint holds exactly the rows of the
\* chunk's all-results buffer whose authority_score is filter_authority_score
\* and whose relevance_score is filter_relevance_score, in the order of the
\* buffer (no file when there is none); the thresholds of the QnA gate take no
\* part in it, whatever their values, so a QnA record need not be in the table.
C21_FilteredQnaIsExactMatch ==
    /\ [][SaveStep /\ pc' = "csv" =>
            LET table == checkpoint_files'[DirectoryName(checkpoint_count')].filtered_qna
                buffer == all_results_with_scores
            IN /\ Len(table) = Cardinality(ExactMatches(buffer))
               /\ \A j \in DOMAIN table :
                     LET row == buffer[NthMatch(buffer, j)] IN
                     /\ table[j].query = row.query
                     /\ table[j].url = row.url
                     /\ table[j].authority_score = ToStr(filter_authority_score)
                     /\ table[j].relevance_score = ToStr(filter_relevance_score)
                     /\ table[j].authority_reason = row.authority_reason
                     /\ table[j].relevance_reason = row.relevance_reason]_vars
    /\ [](\A name \in DOMAIN checkpoint_files :
          \A j \in DOMAIN checkpoint_files[name].filtered_qna :
             /\ checkpoint_files[name].filtered_qna[j].authority_score = "4"
             /\ checkpoint_files[name].filtered_qna[j].relevance_score = "2")

\* with authority_threshold 1 both hits of a chunk gave a QnA record, and the
\* checkpoint's filtered_qna holds only the one scored (4, 2)
C21_Witness ==
    /\ pc = "csv"
    /\ authority_threshold = 1
    /\ Len(all_results_with_scores) = 2
    /\ Len(qna_records) = 2
    /\ \E k \in 1..2 : qna_records[k].authority_score = 1
    /\ checkpoint_count = 1
    /\ Len(checkpoint_files["checkpoint_001"].filtered_qna) = 1
    /\ checkpoint_files["checkpoint_001"].filtered_qna[1].authority_score = "4"

----------------------------------------------------------------------------
(* Properties of _reset_chunk_state *)

\* a step of the client that called _reset_chunk_state
ResetStep == pc = "client" /\ hist_collect_calls' = hist_collect_calls

\* C22: _reset_chunk_state empties the chunk-local containers (the hit buffer,
\* the scored-result buffer, the QnA records of the chunk and the host delta
\* map) and nothing else: authority_hosts, qna_seen_keys, stats, the total_*
\* counters, relevance_distribution_total, checkpoint_count and csv_part_index
\* are after the call what they were before.
C22_ResetClearsChunkStateOnly ==
    [][ResetStep =>
          /\ metasearch_results' = <<>>
          /\ all_results_with_scores' = <<>>
          /\ qna_records' = <<>>
          /\ DOMAIN authority_hosts_updates' = {}
          /\ authority_hosts' = authority_hosts
          /\ qna_seen_keys' = qna_seen_keys
          /\ stats' = stats
          /\ total_metasearch_records' = total_metasearch_records
          /\ total_all_results' = total_all_results
          /\ total_qna_records' = total_qna_records
          /\ relevance_distribution_total' = relevance_distribution_total
          /\ checkpoint_count' = checkpoint_count
          /\ csv_part_index' = csv_part_index]_vars

\* the buffers are empty after a reset that followed two aggregated results,
\* and the cumulative state still holds what they left
C22_Witness ==
    /\ pc = "client"
    /\ all_results_with_scores = <<>>
    /\ qna_records = <<>>
    /\ DOMAIN authority_hosts_updates = {}
    /\ total_all_results = 2
    /\ total_qna_records = 2
    /\ Cardinality(qna_seen_keys) = 2
    /\ Cardinality(DOMAIN authority_hosts) = 2
    /\ stats.authority_score_failed = 0

----------------------------------------------------------------------------
(* Properties of the interrupt handler of main *)

\* the step that leaves the handler of KeyboardInterrupt
HandlerStep == pc = "handler" /\ pc' # "handler"

\* the checkpoint directory written last holds the tables of the buffers
BuffersCheckpointed ==
    /\ checkpoint_count' = checkpoint_count + 1
    /\ \E hosts_table \in HostTables(authority_hosts_updates) :
          checkpoint_files'[DirectoryName(checkpoint_count')] = LocalCheckpoint(hosts_table)

\* no task is cancelled by an interrupt: every task submitted has run to its
\* end when the handler is reached, and the handler changes no buffer
TasksRunToTheirEnd ==
    /\ [](pc \in {"handler", "interrupted", "failed"} =>
             /\ \A i \in DOMAIN search_tasks : search_tasks[i].at \in {"done", "taken"}
             /\ \A k \in DOMAIN scoring_tasks : scoring_tasks[k].at \in {"done", "taken"})
    /\ [][HandlerStep => UNCHANGED <<chunk_vars, pool_vars>>]_vars

\* the handler raises the interrupt again whenever save_checkpoint returns,
\* with the buffers in a new checkpoint, and it is left with another exception
\* only when a write of save_checkpoint failed
InterruptHandledWhenSaveReturns ==
    /\ TasksRunToTheirEnd
    /\ [][HandlerStep => pc' \in {"interrupted", "failed"}]_vars
    /\ [][HandlerStep /\ pc' = "interrupted" =>
            IF checkpoint_interval > 0 THEN BuffersCheckpointed
            ELSE UNCHANGED <<checkpoint_count, checkpoint_files>>]_vars
    /\ [][HandlerStep /\ pc' = "failed" =>
            checkpoint_interval > 0 /\ ~BuffersCheckpointed]_vars

\* C23: when an interrupt reaches main while process_dataframe runs with
\* checkpointing enabled, the buffers accumulated so far are written as a
\* checkpoint and then the interrupt itself is raised again: the handler is
\* left with the interrupt and with no other exception, and the tasks in
\* flight were not cancelled.
C23_InterruptCheckpointsAndReraises ==
    /\ TasksRunToTheirEnd
    /\ [][HandlerStep => pc' = "interrupted"]_vars
    /\ [][HandlerStep /\ checkpoint_interval > 0 => BuffersCheckpointed]_vars

----------------------------------------------------------------------------
(* Properties of the final output *)

\* the step of the caller that runs flush_outputs_csv or flush_outputs
FlushStep == pc = "done" /\ pc' = "flushed"

\* the hosts of the rows of a table
HostsOf(table) == {table[k].host : k \in DOMAIN table}

\* the rows of a table of all results scored exactly (4, 2)
ExactRows(table) ==
    {k \in DOMAIN table :
        table[k].authority_score = "4" /\ table[k].relevance_score = "2"}

----------------------------------------------------------------------------
(* Properties of the rank *)

\* the rank of a scored row is the position of its hit in the list of the
\* hits of the chunk, in the order in which the search futures were taken,
\* whatever the order in which the scoring tasks complete
RankIsPositionInChunk ==
    \A k \in DOMAIN all_results_with_scores :
        LET row == all_results_with_scores[k] IN
        /\ row.rank \in DOMAIN chunk_search_results
        /\ chunk_search_results[row.rank].query = row.query
        /\ chunk_search_results[row.rank].url = row.url

\* C25: the rank stored with a hit in the table of all results is the rank
\* the hit got in the enumeration of its query's items at fetch time, the value
\* stored for the hit in the raw metasearch table, whatever the order in which
\* search and scoring tasks complete.
C25_RankIsFetchRank ==
    \A k \in DOMAIN all_results_with_scores :
        \E j \in DOMAIN metasearch_results :
            /\ metasearch_results[j].query = all_results_with_scores[k].query
            /\ metasearch_results[j].url = all_results_with_scores[k].url
            /\ metasearch_results[j].rank = all_results_with_scores[k].rank

----------------------------------------------------------------------------
(* Properties of the resume of the metasearch collector *)

\* the queries whose rows are in a checkpoint file
QueriesInCheckpoints ==
    UNION {Rows(collector.checkpoint_files[name]) : name \in DOMAIN collector.checkpoint_files}

\* nothing of query i is left to write: its rows are in a checkpoint file, or
\* its search was processed and gave no row
IsPersisted(i) == i \in QueriesInCheckpoints \/ i \in collector.no_hits

\* every query that a resume from progress.json would skip is persisted
ProgressIsPersisted ==
    collector.progress_file.exists =>
        \A i \in 0..(collector.queries - 1) :
            i < collector.progress_file.processed_queries => IsPersisted(i)

\* a first run that reaches its end has persisted every query
CompletedRunPersistsAll ==
    collector.pc = "done" /\ collector.timestamp = 1 =>
        \A i \in 0..(collector.queries - 1) : IsPersisted(i)

\* C26: whenever progress.json records processed_queries = k, the results of
\* every query with index < k are in a checkpoint file, so a run that resumes
\* from k skips no query whose results were not persisted, for every order of
\* completion of the search tasks and after an interrupt.
C26_ProgressNeverAheadOfCheckpoints ==
    collector.pc # "absent" => ProgressIsPersisted

----------------------------------------------------------------------------
(* Properties of the rank of the raw metasearch table *)

\* the ranks of the rows of a table that belong to query q
RanksOf(table, q) == {table[k].rank : k \in {j \in DOMAIN table : table[j].query = q}}

\* C27: for every query the ranks of the hits kept after the malformed items
\* are dropped are dense: they are exactly 1..k for the k hits kept, without
\* gap, also when items of the top K were dropped for an empty url or host.
C27_RanksAreDense ==
    \A k \in DOMAIN metasearch_results :
       LET q == metasearch_results[k].query
       IN RanksOf(metasearch_results, q) =
             1..Cardinality({j \in DOMAIN metasearch_results :
                                metasearch_results[j].query = q})

\* C27 as the code has it: the rank of a row is the position, counted from 1,
\* of its item among the top K items of the reply, malformed items included;
\* the ranks of the rows of a query increase in the order of the table and
\* lie in 1..topk, and a malformed item leaves a gap.
C27_RankIsPositionAmongTopItems ==
    /\ \A k \in DOMAIN metasearch_results :
          /\ metasearch_results[k].rank \in 1..topk
          /\ \E i \in DOMAIN search_tasks :
                /\ search_tasks[i].query = metasearch_results[k].query
                /\ metasearch_results[k].rank \in DOMAIN search_tasks[i].items
                /\ search_tasks[i].items[metasearch_results[k].rank] =
                      metasearch_results[k].url
    /\ \A j, k \in DOMAIN metasearch_results :
          j < k /\ metasearch_results[j].query = metasearch_results[k].query =>
             metasearch_results[j].rank < metasearch_results[k].rank

\* the first item of the reply had no url: the only row has rank 2
C27_Witness ==
    /\ Len(search_tasks) = 1
    /\ search_tasks[1].items = <<"", "http://a.com/2">>
    /\ search_tasks[1].at = "done"
    /\ Len(metasearch_results) = 1
    /\ metasearch_results[1].rank = 2

----------------------------------------------------------------------------
(* Properties of the cached scorers *)

\* C28: a call of score_authority_cached or score_relevance_cached ends after
\* at most MAX_RETRIES + 1 calls of the gateway: the loop is never in an
\* attempt beyond them, when every attempt failed (exception or empty answer)
\* the failure sentinel is returned (0 for authority, -1 for relevance), and
\* no exception reaches the caller.
C28_BoundedRetriesThenSentinel ==
    scorer.pc # "absent" =>
       /\ scorer.pc # "raised"
       /\ scorer.gateway_calls <= MAX_RETRIES + 1
       /\ scorer.failed_attempts <= scorer.gateway_calls
       /\ scorer.pc = "attempt" =>
             /\ scorer.gateway_calls < MAX_RETRIES + 1
             /\ scorer.attempt = scorer.gateway_calls + 1
             /\ scorer.failed_attempts = scorer.gateway_calls
       /\ scorer.pc = "returned" /\ ~scorer.succeeded /\ scorer.gateway_calls > 0 =>
             /\ scorer.gateway_calls = MAX_RETRIES + 1
             /\ scorer.failed_attempts = MAX_RETRIES + 1
             /\ scorer.value = FailureSentinel(scorer.function)
       /\ scorer.pc = "returned" /\ scorer.failed_attempts = MAX_RETRIES + 1 =>
             scorer.value = FailureSentinel(scorer.function)

\* the relevance scorer has returned -1 after three failed attempts
C28_Witness ==
    /\ scorer.pc = "returned"
    /\ scorer.function = "relevance"
    /\ scorer.gateway_calls = MAX_RETRIES + 1
    /\ scorer.failed_attempts = MAX_RETRIES + 1
    /\ scorer.value = -1

\* the row score of score_single_result is always the sentinel of the
\* pipeline when the scorer is one of the cached scorers
RowCarriesSentinel ==
    scorer.pc = "row" =>
       scorer.row_score = (IF scorer.function = "authority" THEN AuthorityFailed
                           ELSE RelevanceFailed)

\* C29: with the scorers of scoring_optimized wired in, a gateway call that
\* succeeds with an authority score in 1..4 (a relevance score in 0..2) gives
\* a row that carries that score; the sentinel is in the row only when the
\* gateway call itself failed.
C29_RowCarriesGatewayScore ==
    scorer.pc = "row" /\ scorer.succeeded /\ scorer.value \in ValidLabels(scorer.function) =>
       scorer.row_score = scorer.value

----------------------------------------------------------------------------
(* Properties of the run statistics after the Search phase *)

\* every search future of the chunk was yielded by as_completed
SearchPhaseOver == pc = "search" /\ search_tasks # <<>> /\ AllTaken(search_tasks)

\* the counters of fetch_results count the queries and the hits of the run up
\* to the chunk: start queries came before the chunk, hist_collect_calls hits
\* were staged and aggregated before it
SearchStatsExact ==
    /\ stats.total_queries = start + Len(search_tasks)
    /\ stats.search_success + stats.search_failed = stats.total_queries
    /\ total_metasearch_records = hist_collect_calls + Len(metasearch_results)

\* with one worker the counters are exact after every Search phase
SequentialSearchStatsExact == max_workers = 1 /\ SearchPhaseOver => SearchStatsExact

\* C30: the run statistics are exact under concurrency: after the Search phase
\* of a chunk run with max_workers > 1, for every interleaving of the workers
\* in fetch_results, stats.total_queries has grown by the number of queries of
\* the chunk, search_success + search_failed = total_queries, and
\* total_metasearch_records is the number of hits staged (no lost update).
C30_SearchStatsExactUnderConcurrency ==
    max_workers > 1 /\ SearchPhaseOver => SearchStatsExact

----------------------------------------------------------------------------
(* Properties of the checkpoint directories of a run that is interrupted *)

\* query q stands once in the batch: its scored rows come from one chunk
OccursOnce(q) == Cardinality({i \in DOMAIN rows : rows[i] = q}) = 1

\* the checkpoint directories whose all_results_with_scores table holds row
DirectoriesHolding(row) ==
    {name \in DOMAIN checkpoint_files :
        \E k \in DOMAIN checkpoint_files[name].all_results_with_scores :
           checkpoint_files[name].all_results_with_scores[k] = row}

\* the scored rows written to some checkpoint directory
RowsInCheckpoints ==
    UNION {Rows(checkpoint_files[name].all_results_with_scores) :
              name \in DOMAIN checkpoint_files}

\* a run that no interrupt has reached writes every scored row to one
\* directory
UninterruptedRunWritesRowsOnce ==
    pc \notin {"shutdown", "handler", "interrupted", "failed"} =>
       \A row \in RowsInCheckpoints :
          OccursOnce(row.query) => Cardinality(DirectoriesHolding(row)) = 1

\* C31: no scored row is persisted in two different checkpoint directories, on
\* any path through the run, also when an interrupt or an exception comes
\* after save_checkpoint has written the chunk and before the buffers of the
\* chunk are reset, and the handler of main calls save_checkpoint again.
C31_NoRowInTwoCheckpoints ==
    \A row \in RowsInCheckpoints :
       OccursOnce(row.query) => Cardinality(DirectoriesHolding(row)) = 1

----------------------------------------------------------------------------
(* Properties of the host deltas of the checkpoints *)

\* the numbers of the checkpoint directories whose authority_hosts table has
\* a row for host h
CheckpointsWithHost(h) ==
    {n \in 1..checkpoint_count :
        /\ CheckpointName(n) \in DOMAIN checkpoint_files
        /\ \E k \in DOMAIN checkpoint_files[CheckpointName(n)].authority_hosts :
              checkpoint_files[CheckpointName(n)].authority_hosts[k].host = h}

\* the last of a non-empty set of numbers
Highest(numbers) == CHOOSE n \in numbers : \A m \in numbers : m <= n

\* the entry of host h in the table of checkpoint n, as the cumulative map
\* holds it
CheckpointEntry(n, h) ==
    LET table == checkpoint_files[CheckpointName(n)].authority_hosts
        k == CHOOSE j \in DOMAIN table : table[j].host = h
    IN [authority_score |-> table[k].authority_score,
        authority_reason |-> table[k].authority_reason]

\* C32: replaying the checkpoints in the order of their names gives the
\* cumulative host registry: when a run with checkpoint_interval > 0 has ended
\* without failure, every host of authority_hosts is in the authority_hosts
\* table of at least one checkpoint, and its entry in the highest-numbered
\* such checkpoint is the cumulative entry (score and reason).
C32_CheckpointsReplayToRegistry ==
    pc = "done" /\ checkpoint_interval > 0 =>
       \A h \in DOMAIN authority_hosts :
          /\ CheckpointsWithHost(h) # {}
          /\ CheckpointEntry(Highest(CheckpointsWithHost(h)), h) = authority_hosts[h]

\* the host was entered with score 1 in the first chunk and raised to 4 in
\* the second: both checkpoints have a row for it
C32_Witness ==
    /\ pc = "done"
    /\ checkpoint_interval = 1
    /\ "a.com" \in DOMAIN authority_hosts
    /\ authority_hosts["a.com"].authority_score = "4"
    /\ CheckpointsWithHost("a.com") = {1, 2}
    /\ CheckpointEntry(1, "a.com").authority_score = "1"

----------------------------------------------------------------------------
(* Properties of the host delta of the current chunk *)

\* the entry of host h in the delta is new or has changed in the step
DeltaWritten(h) ==
    /\ h \in DOMAIN authority_hosts_updates'
    /\ \/ h \notin DOMAIN authority_hosts_updates
       \/ authority_hosts_updates'[h] # authority_hosts_updates[h]

\* the cumulative entry of host h is created or strictly raised in the step
CumulativeCreatedOrRaised(h) ==
    /\ h \in DOMAIN authority_hosts'
    /\ \/ h \notin DOMAIN authority_hosts
       \/ ToInt(authority_hosts[h].authority_score) <
             ToInt(authority_hosts'[h].authority_score)

\* C33: in every reachable state the host delta of the chunk agrees with the
\* cumulative map: every host of authority_hosts_updates is in authority_hosts
\* with the same entry, and a host is in the delta of the current chunk only
\* if its cumulative entry was created or strictly raised during the chunk:
\* the delta is empty between two chunks and an entry is written to it only
\* by a step that creates or raises the cumulative entry.
C33_DeltaAgreesWithRegistry ==
    /\ [](\A h \in DOMAIN authority_hosts_updates :
             /\ h \in DOMAIN authority_hosts
             /\ authority_hosts_updates[h] = authority_hosts[h])
    /\ [](pc \in {"loop", "done"} => DOMAIN authority_hosts_updates = {})
    /\ [][\A h \in Hosts : DeltaWritten(h) => CumulativeCreatedOrRaised(h)]_vars

\* in the second chunk the entry of the host was raised from 1 to 4: the
\* delta holds the raised entry
C33_Witness ==
    /\ chunk_index = 2
    /\ CheckpointsWithHost("a.com") = {1}
    /\ CheckpointEntry(1, "a.com").authority_score = "1"
    /\ "a.com" \in DOMAIN authority_hosts_updates
    /\ authority_hosts_updates["a.com"].authority_score = "4"

----------------------------------------------------------------------------
(* Properties of the Score phase: every staged hit is aggregated once *)

\* the hits staged in the chunks that were written out before the current one
StagedInParts ==
    SumOver([name \in DOMAIN csv_parts |-> Len(csv_parts[name].metasearch_results)],
            DOMAIN csv_parts)

\* the Score phase of the chunk is over, nothing is persisted or reset yet
ScorePhaseOver == pc \in {"save", "csv"} /\ scoring_tasks # <<>>

\* C34: every hit staged in the Search phase of a chunk is scored and
\* aggregated exactly once in the Score phase of that chunk: when the Score
\* phase ends, before persistence and reset, all_results_with_scores has
\* exactly one row for every entry of metasearch_results, and over the run
\* total_all_results is the number of hits staged.
C34_StagedHitsAggregatedOnce ==
    /\ ScorePhaseOver =>
          /\ Len(all_results_with_scores) = Len(metasearch_results)
          /\ \A key \in Queries \X Urls :
                RowsFor(all_results_with_scores, key) = RowsFor(metasearch_results, key)
          /\ total_all_results = StagedInParts + Len(metasearch_results)
    /\ pc = "done" => total_all_results = StagedInParts

\* two workers staged one hit each for the same query; both were scored and
\* aggregated
C34_Witness ==
    /\ ScorePhaseOver
    /\ Len(metasearch_results) = 2
    /\ Len(all_results_with_scores) = 2
    /\ total_all_results = 2

\* the caches hold the sentinel only for replies that were read to the end:
\* a failed attempt (exception, empty answer) caches nothing
FailedCallCachesNothing ==
    scorer.pc = "returned" /\ ~scorer.succeeded /\ scorer.gateway_calls > 0 =>
       scorer.key \notin DOMAIN scorer.cache[scorer.function]

\* C36: the scoring caches never store a failure sentinel: _authority_cache
\* holds scores in 1..4 only and _relevance_cache scores in 0..2 only, so an
\* item whose scoring failed (also by a reply without label or with a label
\* out of range) is scored by the gateway again on a later call.
C36_CachesHoldNoSentinel ==
    scorer.pc # "absent" =>
       \A function \in {"authority", "relevance"} :
          \A key \in DOMAIN scorer.cache[function] :
             scorer.cache[function][key] \in ValidLabels(function)

----------------------------------------------------------------------------
(* Properties of the memoization under concurrent calls *)

\* the non-failure scores returned for host
ScoresReturned(host) ==
    {pair[2] : pair \in {p \in scorer.returns :
                            p[1] = host /\ p[2] # FailureSentinel("authority")}}

\* while one thread makes all the calls, the calls for a host return one score
OneThreadReturnsOneScore ==
    (\A t \in 2..MaxWorkers : scorer.threads[t] = IdleThread) =>
       \A host \in CacheKeys("authority") : Cardinality(ScoresReturned(host)) <= 1

\* C35: the memoization of the scores is consistent within a run: all the
\* calls of score_authority_cached for a host that return a non-failure score
\* return the same score, also when calls for the host run at once on
\* different worker threads and the gateway answers each call differently.
C35_OneScorePerHost ==
    scorer.pc = "threads" =>
       \A host \in CacheKeys("authority") : Cardinality(ScoresReturned(host)) <= 1

----------------------------------------------------------------------------
(* Properties of the progress file and of the checkpoint files of the        *)
(* metasearch collector                                                      *)

\* the progress saved is an index into the list of queries
ProgressWithinQueries ==
    collector.pc # "absent" =>
       collector.progress_file.processed_queries \in 0..collector.queries

\* C37: the value saved to progress.json never decreases: over the calls of
\* save_progress of one run, for every order of completion of the tasks, and
\* over resumed runs with the interrupt handler, each processed_queries saved
\* is at least the one saved before.
C37_ProgressNeverDecreases ==
    [][collector.pc # "absent" /\ collector.progress_file.exists =>
          collector'.progress_file.processed_queries >=
             collector.progress_file.processed_queries]_vars

\* the checkpoint files that hold row
FilesHolding(row) ==
    {name \in DOMAIN collector.checkpoint_files :
        \E k \in DOMAIN collector.checkpoint_files[name] :
           collector.checkpoint_files[name][k] = row}

\* the places of row in the checkpoint files
PlacesOf(row) ==
    SumOver([name \in DOMAIN collector.checkpoint_files |->
                Cardinality({k \in DOMAIN collector.checkpoint_files[name] :
                                collector.checkpoint_files[name][k] = row})],
            DOMAIN collector.checkpoint_files)

\* a step that writes a checkpoint file gives it a name that no file has
WritesNewFile ==
    \/ collector'.checkpoint_files = collector.checkpoint_files
    \/ \E name \in DOMAIN collector'.checkpoint_files :
          /\ name \notin DOMAIN collector.checkpoint_files
          /\ DOMAIN collector'.checkpoint_files =
                DOMAIN collector.checkpoint_files \cup {name}
          /\ \A old \in DOMAIN collector.checkpoint_files :
                collector'.checkpoint_files[old] = collector.checkpoint_files[old]

\* C38: when process_queries returns normally from a fresh start, every result
\* row fetched in the run is in exactly one checkpoint file, and no two
\* checkpoint writes of the run go to the same file name, for every order of
\* completion of the search tasks.
C38_RowsInOneCheckpointFile ==
    /\ [](collector.pc = "done" /\ collector.timestamp = 1 =>
             \A j \in DOMAIN collector.futures :
                \A row \in Rows(collector.futures[j].results) :
                   /\ Cardinality(FilesHolding(row)) = 1
                   /\ PlacesOf(row) = 1)
    /\ [][collector.pc # "absent" /\ collector.timestamp = 1
             /\ collector'.timestamp = 1 => WritesNewFile]_vars

\* the last query completed first, then the first one: the periodic
\* checkpoint of two queries and the final one are two files that hold the
\* three rows
C38_Witness ==
    /\ collector.pc = "done"
    /\ collector.timestamp = 1
    /\ collector.queries = 3
    /\ collector.checkpoint_interval = 2
    /\ DOMAIN collector.checkpoint_files = {<<-1, 1, 1>>, <<1, 2, 1>>}
    /\ collector.checkpoint_files[<<-1, 1, 1>>] = <<2, 0>>
    /\ collector.checkpoint_files[<<1, 2, 1>>] = <<1>>

====
